---- MODULE Spec2Model ----
(***************************************************************************)
(* A model of the data-download tool: the multi-source merge engine        *)
(* (util/file_util.py) and the incident message decoder                    *)
(* (data/incident_manager.py).                                             *)
(*                                                                         *)
(* Text (file names, templates, decoded messages) is a sequence of         *)
(* one-character strings, so that substring tests, regular expressions     *)
(* and str.replace are computed as the code computes them.                 *)
(***************************************************************************)
EXTENDS Integers, Sequences, FiniteSets, TLC

VARIABLES
    \* ---- merge engine (util/file_util.py) ----
    listing,      \* os.listdir(DATA_FOLDER_PATH): sequence of file profiles
    folder_ok,    \* whether a target store can be opened in DATA_FOLDER_PATH
    disk,         \* path -> store, for every file that exists
    file_paths,   \* argument of merge_database_files
    mpc,          \* position in merge_database_files / merge_batch
    batch_i,      \* loop variable i of merge_database_files
    mb,           \* frame of the running merge_batch call
    result,       \* return value of merge_database_files: "none" before, "True", "False"
    batch_log,    \* return values of the merge_batch calls made so far
    \* ---- incident decoding (data/incident_manager.py) ----
    text_dic,     \* IncidentManager.text_dic: index -> template
    user_dir,     \* the fb_users table: user id -> login name
    base_text,    \* argument base_text of _insert_arguments
    args,         \* argument args of _insert_arguments
    decoded,      \* outcome of _insert_arguments
    text,         \* argument text of _check_for_user
    user_text,    \* outcome of _check_for_user
    raw_incidents, \* process_incidents: the incidents read from the store
    db_entries,   \* IncidentManager.db_entries
    true_incidents, \* IncidentManager.true_incidents
    entry_i,      \* position of the loop of clean_data in db_entries
    cpc,          \* clean_data: "off", "loop", "done", or the exception raised
    \* ---- text dictionary (IncidentManager.load_text_dic) ----
    xml_doc,      \* the file at xml_file_path: its item elements, or Unreadable
    item_i,       \* position of the loop of load_text_dic in the items
    dpc,          \* load_text_dic: "off", "start", "loop", "done", or the exception caught
    \* ---- shifting the series (util/time_util.py) ----
    samples,      \* the rows process_data read from the store, by category
    data,         \* SelectedDataManager.get_data(): the selected series
    shift_arg,    \* argument time_zone_offset of enter_time_zone_offset
    applied,      \* calls of enter_time_zone_offset made on data
    \* ---- session workers (core/application_controller.py, core/workflow_manager.py) ----
    store_param,  \* the merged store as get_time_zone_offset finds it
    has_dic,      \* whether the data folder holds a textDic file
    merged_file,  \* ApplicationController.merged_file
    file_ready_event, \* ApplicationController.file_ready_event
    time_zone_offset, \* WorkflowManager.time_zone_offset, <<>> for None and <<v>> for v
    timezone_ready, \* WorkflowManager.timezone_ready
    merging,      \* the workers inside load_files
    gpc,          \* position of the graph worker
    g_params,     \* params of the graph request
    g_local,      \* offset_hours of process_data
    g_shift,      \* what process_data did to the timestamps
    ipc,          \* position of the incident worker
    i_local,      \* offset_hours of process_incidents
    i_shift,      \* what process_incidents did to the timestamps
    rpc,          \* position of the report worker
    r_shift,      \* what populate_report did to the timestamps
    ui_queue,     \* callbacks scheduled with root.after, oldest first
    status,       \* text of the status label
    widgets,      \* the widget changes made so far, each with the thread that made it
    buttons,      \* the buttons that are enabled
    clicks,       \* clicks on the generate button so far
    populated,    \* whether the populate button was clicked
    lookups,      \* calls of get_time_zone_offset since the last reset
    prompts,      \* prompts shown since the last reset
    store_file,   \* whether the merged store file exists in the data folder
    delete_pc,    \* the deletion of the data folder contents: "idle", "scheduled", "done"
    delete_report, \* the message box _attempt_file_deletion has shown, "" for none
    loads,        \* calls of load_files since merged_file was last None at start or by deletion
    unreset_load  \* whether a load has returned and the offset is not yet reset

mergeVars == <<listing, folder_ok, disk, file_paths, mpc, batch_i, mb, result, batch_log>>

decodeVars == <<text_dic, user_dir, base_text, args, decoded>>

userVars == <<text, user_text>>

cleanVars == <<raw_incidents, db_entries, true_incidents, entry_i, cpc>>

dicVars == <<xml_doc, item_i, dpc>>

shiftVars == <<samples, data, shift_arg, applied>>

sessionVars ==
    <<store_param, has_dic, merged_file, file_ready_event, time_zone_offset, timezone_ready,
      merging, gpc, g_params, g_local, g_shift, ipc, i_local, i_shift, rpc, r_shift, ui_queue,
      status, widgets, buttons, clicks, populated, lookups, prompts, store_file, delete_pc,
      delete_report, loads, unreset_load>>

restVars == <<dicVars, shiftVars, sessionVars>>

vars == <<mergeVars, decodeVars, userVars, cleanVars, restVars>>

-----------------------------------------------------------------------------
(* Bounds of the model *)

MaxFiles == 10     \* longest directory listing
MaxOdd == 1        \* deviations from the nominal environment per run

(* Program constants *)

BATCH_SIZE == 9

-----------------------------------------------------------------------------
(* Text helpers *)

DigitChars == <<"0", "1", "2", "3", "4", "5", "6", "7", "8", "9">>

IsDigit(c) == \E k \in 1..10 : DigitChars[k] = c

DigitVal(c) == (CHOOSE k \in 1..10 : DigitChars[k] = c) - 1

\* str(n) for a natural number
RECURSIVE NatToStr(_)
NatToStr(n) ==
    IF n < 10 THEN <<DigitChars[n + 1]>>
    ELSE NatToStr(n \div 10) \o <<DigitChars[(n % 10) + 1]>>

\* int(s) for a string of decimal digits
RECURSIVE StrToNat(_)
StrToNat(s) ==
    IF Len(s) = 0 THEN 0
    ELSE 10 * StrToNat(SubSeq(s, 1, Len(s) - 1)) + DigitVal(s[Len(s)])

\* s[from:] of Python, with a 1-based first position
Drop(s, from) == SubSeq(s, from, Len(s))

StartsWithAt(s, sub, pos) ==
    /\ pos + Len(sub) - 1 <= Len(s)
    /\ SubSeq(s, pos, pos + Len(sub) - 1) = sub

\* sub in s
Contains(s, sub) == \E pos \in 1..(Len(s) + 1) : StartsWithAt(s, sub, pos)

EndsWith(s, sub) ==
    /\ Len(sub) <= Len(s)
    /\ SubSeq(s, Len(s) - Len(sub) + 1, Len(s)) = sub

\* s.replace(old, new): every non-overlapping occurrence, left to right
RECURSIVE Replace(_, _, _)
Replace(s, old, new) ==
    IF Len(old) = 0 \/ Len(s) = 0 THEN s
    ELSE IF StartsWithAt(s, old, 1)
         THEN new \o Replace(Drop(s, Len(old) + 1), old, new)
         ELSE <<s[1]>> \o Replace(Drop(s, 2), old, new)

-----------------------------------------------------------------------------
(* Files and stores *)

Tables == <<"T", "U">>

DATA_FOLDER_PATH == <<"D", "/">>

MergedPath == DATA_FOLDER_PATH \o <<"m", "e", "r", "g", "e", "d", "_", "d", "b">>

TempMergeMark == <<"t", "e", "m", "p", "_", "m", "e", "r", "g", "e">>

TempPath(i) == DATA_FOLDER_PATH \o TempMergeMark \o <<"_">> \o NatToStr(i)

DCMark == <<"F", "B", "2", "0", ".", "D", "C">>

DC1Mark == DCMark \o <<".", "1">>

\* The file profiles a listing is made of.  "ok1" is the nominal source.
Profiles == {"ok1", "ok2", "two", "noT", "dup", "missing", "corrupt", "xml"}

ProfilePrefix(p) ==
    CASE p = "ok2" -> DCMark \o <<".", "2">>
      [] p = "xml" -> <<"t", "e", "x", "t", "D", "i", "c">>
      [] OTHER -> DC1Mark

FileName(j, p) == ProfilePrefix(p) \o <<".">> \o NatToStr(j)

FilePath(j, p) == DATA_FOLDER_PATH \o FileName(j, p)

\* The store held by the j-th listed file.  Rows are keyed: <<j, r>> is row r
\* of file j; a "dup" file repeats the key of the first file's row of T.
SourceStore(j, p) ==
    [valid |-> p \notin {"corrupt", "xml"},
     tbl |-> CASE p \in {"corrupt", "xml"} -> <<>>
               [] p = "noT" -> [t \in {"U"} |-> {<<j, 1>>}]
               [] p = "two" -> [t \in {"T", "U"} |->
                                  IF t = "T" THEN {<<j, 1>>, <<j, 2>>} ELSE {<<j, 1>>}]
               [] p = "dup" -> [t \in {"T", "U"} |->
                                  IF t = "T" THEN {<<1, 1>>} ELSE {<<j, 1>>}]
               [] OTHER -> [t \in {"T", "U"} |-> {<<j, 1>>}]]

EmptyStore == [valid |-> TRUE, tbl |-> <<>>]

InitialDisk(lst) ==
    LET present == {j \in 1..Len(lst) : lst[j] # "missing"}
        paths == {FilePath(j, lst[j]) : j \in present}
    IN [q \in paths |->
          LET j == CHOOSE k \in present : FilePath(k, lst[k]) = q
          IN SourceStore(j, lst[j])]

\* get_database_filepaths: the listed files whose name contains "FB20.DC"
RECURSIVE FilterListing(_, _)
FilterListing(lst, j) ==
    IF j > Len(lst) THEN <<>>
    ELSE (IF Contains(FileName(j, lst[j]), DCMark)
          THEN <<FilePath(j, lst[j])>> ELSE <<>>) \o FilterListing(lst, j + 1)

get_database_filepaths(lst) == FilterListing(lst, 1)

-----------------------------------------------------------------------------
(* The parts of the state a specification does not use *)

\* The value of decoded before _insert_arguments is called
NotCalled == [raised |-> "notcalled", text |-> <<>>, args |-> <<>>, log |-> <<>>]

DecodeIdle ==
    /\ text_dic = <<>>
    /\ user_dir = <<>>
    /\ base_text = <<>>
    /\ args = <<>>
    /\ decoded = NotCalled

UserIdle ==
    /\ text = <<>>
    /\ user_text = [called |-> FALSE, text |-> <<>>]

DicIdle ==
    /\ xml_doc = <<>>
    /\ item_i = 0
    /\ dpc = "off"

ShiftIdle ==
    /\ samples = <<>>
    /\ data = <<>>
    /\ shift_arg = 0
    /\ applied = 0

SessionIdle ==
    /\ store_param = "NoValue"
    /\ has_dic = FALSE
    /\ merged_file = <<>>
    /\ file_ready_event = FALSE
    /\ time_zone_offset = <<>>
    /\ timezone_ready = FALSE
    /\ merging = {}
    /\ gpc = "off"
    /\ g_params = <<>>
    /\ g_local = <<>>
    /\ g_shift = <<>>
    /\ ipc = "off"
    /\ i_local = <<>>
    /\ i_shift = <<>>
    /\ rpc = "off"
    /\ r_shift = <<>>
    /\ ui_queue = <<>>
    /\ status = ""
    /\ widgets = {}
    /\ buttons = {}
    /\ clicks = 0
    /\ populated = FALSE
    /\ lookups = 0
    /\ prompts = 0
    /\ store_file = FALSE
    /\ delete_pc = "off"
    /\ delete_report = ""
    /\ loads = 0
    /\ unreset_load = FALSE

RestIdle == DicIdle /\ ShiftIdle /\ SessionIdle

CleanIdle ==
    /\ raw_incidents = <<>>
    /\ db_entries = <<>>
    /\ true_incidents = <<>>
    /\ entry_i = 0
    /\ cpc = "off"

-----------------------------------------------------------------------------
(* The state outside each of the later groups *)

othersDic == <<shiftVars, sessionVars>>

OthersIdleDic == ShiftIdle /\ SessionIdle

othersShift == <<dicVars, sessionVars>>

OthersIdleShift == DicIdle /\ SessionIdle

othersSession == <<dicVars, shiftVars>>

OthersIdleSession == DicIdle /\ ShiftIdle

-----------------------------------------------------------------------------
(* merge_batch *)

Exists(d, path) == path \in DOMAIN d

\* The tables of a store's catalog, in catalog order
RECURSIVE CatalogFrom(_, _)
CatalogFrom(store, k) ==
    IF k > Len(Tables) THEN <<>>
    ELSE (IF Tables[k] \in DOMAIN store.tbl THEN <<Tables[k]>> ELSE <<>>)
         \o CatalogFrom(store, k + 1)

Catalog(store) == CatalogFrom(store, 1)

\* The schema reference: the first existing path of the batch whose text
\* contains "FB20.DC.1" or "temp_merge" and that can be attached; 0 if none.
RECURSIVE RefSourceFrom(_, _, _)
RefSourceFrom(d, paths, k) ==
    IF k > Len(paths) THEN 0
    ELSE IF /\ Exists(d, paths[k])
            /\ (Contains(paths[k], DC1Mark) \/ Contains(paths[k], TempMergeMark))
            /\ d[paths[k]].valid
         THEN k
         ELSE RefSourceFrom(d, paths, k + 1)

RefSource(d, paths) == RefSourceFrom(d, paths, 1)

\* CREATE TABLE for every table of the list; an existing table is skipped
CreateTables(tgt, tbls) ==
    LET new == {tbls[k] : k \in 1..Len(tbls)} \ DOMAIN tgt.tbl
    IN [tgt EXCEPT !.tbl = [t \in (DOMAIN tgt.tbl) \cup new |->
                              IF t \in DOMAIN tgt.tbl THEN tgt.tbl[t] ELSE {}]]

\* INSERT INTO 't' SELECT * FROM alias.'t'.  The statement cannot be prepared
\* when the alias is not attached or the source lacks the table.  The
\* unqualified target name resolves to the target's table when it has one and
\* to the attached source's own table otherwise.  A key already present fails
\* the whole statement.  read: the source was read inside the transaction.
InsertSelect(tgt, src, att, t) ==
    IF ~att \/ t \notin DOMAIN src.tbl
    THEN [ok |-> FALSE, tgt |-> tgt, read |-> FALSE]
    ELSE IF t \in DOMAIN tgt.tbl
         THEN IF tgt.tbl[t] \cap src.tbl[t] # {}
              THEN [ok |-> FALSE, tgt |-> tgt, read |-> TRUE]
              ELSE [ok |-> TRUE,
                    tgt |-> [tgt EXCEPT !.tbl[t] = @ \cup src.tbl[t]],
                    read |-> TRUE]
         ELSE [ok |-> src.tbl[t] = {}, tgt |-> tgt, read |-> TRUE]

\* The copy loop as it would be if a failed statement ended it
RECURSIVE CopyTablesStopAtFailure(_, _, _, _)
CopyTablesStopAtFailure(tgt, src, att, tbls) ==
    IF Len(tbls) = 0
    THEN [tgt |-> tgt, attempted |-> {}, failed |-> {}, read |-> FALSE]
    ELSE LET r == InsertSelect(tgt, src, att, Head(tbls))
             rest == IF r.ok THEN CopyTablesStopAtFailure(r.tgt, src, att, Tail(tbls))
                     ELSE [tgt |-> r.tgt, attempted |-> {}, failed |-> {}, read |-> FALSE]
         IN [tgt |-> rest.tgt,
             attempted |-> {Head(tbls)} \cup rest.attempted,
             failed |-> (IF r.ok THEN {} ELSE {Head(tbls)}) \cup rest.failed,
             read |-> r.read \/ rest.read]

\* The copy loop over the known tables for one attached source: a failed
\* statement is skipped and the loop goes on with the next table.
RECURSIVE CopyTables(_, _, _, _)
CopyTables(tgt, src, att, tbls) ==
    IF Len(tbls) = 0
    THEN [tgt |-> tgt, attempted |-> {}, failed |-> {}, read |-> FALSE]
    ELSE LET r == InsertSelect(tgt, src, att, Head(tbls))
             rest == CopyTables(r.tgt, src, att, Tail(tbls))
         IN [tgt |-> rest.tgt,
             attempted |-> {Head(tbls)} \cup rest.attempted,
             failed |-> (IF r.ok THEN {} ELSE {Head(tbls)}) \cup rest.failed,
             read |-> r.read \/ rest.read]

NoFrame ==
    [kind |-> "none", paths |-> <<>>, target |-> <<>>, create_tables |-> FALSE,
     pos |-> 0, tables |-> <<>>, work |-> EmptyStore, attached |-> {},
     in_txn |-> FALSE, attempted |-> {}, failed |-> {}]

\* with sqlite3.connect(target_database): the target file is created when it
\* does not exist; the call fails when the folder cannot hold it.  work is the
\* target as the connection sees it; disk holds what is committed.
EnterBatch(kind, paths, target, create) ==
    IF folder_ok
    THEN /\ mb' = [NoFrame EXCEPT !.kind = kind, !.paths = paths,
                                  !.target = target, !.create_tables = create,
                                  !.work = IF Exists(disk, target) THEN disk[target]
                                           ELSE EmptyStore]
         /\ disk' = IF Exists(disk, target) THEN disk
                    ELSE [q \in (DOMAIN disk) \cup {target} |->
                            IF q = target THEN EmptyStore ELSE disk[q]]
         /\ mpc' = "schema"
         /\ UNCHANGED batch_log
    ELSE /\ mb' = [NoFrame EXCEPT !.kind = kind]
         /\ batch_log' = Append(batch_log, FALSE)
         /\ mpc' = "returned"
         /\ UNCHANGED disk

\* Lines 154-207: attach the reference, read its catalog, create the tables
\* (each CREATE TABLE runs outside a transaction and is durable at once),
\* detach the reference.
Schema ==
    /\ mpc = "schema"
    /\ LET ref == RefSource(disk, mb.paths)
           tbls == IF ref = 0 THEN <<>> ELSE Catalog(disk[mb.paths[ref]])
           created == IF mb.create_tables THEN CreateTables(mb.work, tbls) ELSE mb.work
       IN /\ mb' = [mb EXCEPT !.tables = tbls, !.pos = 1, !.work = created]
          /\ disk' = [disk EXCEPT ![mb.target] = created]
    /\ mpc' = "copy"
    /\ UNCHANGED <<restVars, decodeVars, userVars, cleanVars, listing, folder_ok, file_paths, batch_i, result, batch_log>>

\* Lines 209-238, one iteration: attach the source, copy every known table,
\* detach.  A source read inside the open transaction stays attached, because
\* DETACH fails on it.
CopySource ==
    /\ mpc = "copy"
    /\ mb.pos <= Len(mb.paths)
    /\ LET path == mb.paths[mb.pos]
       IN IF ~Exists(disk, path)
          THEN /\ mb' = [mb EXCEPT !.pos = @ + 1]
               /\ UNCHANGED disk
          ELSE LET src == disk[path]
                   r == CopyTables(mb.work, src, src.valid, mb.tables)
               IN /\ UNCHANGED disk
                  /\ mb' = [mb EXCEPT
                              !.pos = @ + 1,
                              !.work = r.tgt,
                              !.attached = IF r.read THEN @ \cup {path} ELSE @,
                              !.in_txn = @ \/ r.read,
                              !.attempted = @ \cup {<<t, path>> : t \in r.attempted},
                              !.failed = @ \cup {<<t, path>> : t \in r.failed}]
    /\ UNCHANGED <<restVars, decodeVars, userVars, cleanVars, listing, folder_ok, file_paths, mpc, batch_i, result, batch_log>>

\* Lines 240-241: commit and return True
Commit ==
    /\ mpc = "copy"
    /\ mb.pos > Len(mb.paths)
    /\ mb' = [mb EXCEPT !.in_txn = FALSE, !.attached = {}]
    /\ disk' = [disk EXCEPT ![mb.target] = mb.work]
    /\ batch_log' = Append(batch_log, TRUE)
    /\ mpc' = "returned"
    /\ UNCHANGED <<restVars, decodeVars, userVars, cleanVars, listing, folder_ok, file_paths, batch_i, result>>

-----------------------------------------------------------------------------
(* merge_database_files, called by load_files *)

Slice(s, from, to) == SubSeq(s, from + 1, IF to < Len(s) THEN to ELSE Len(s))

Target(i) == IF i = 0 THEN MergedPath ELSE TempPath(i)

\* load_files, line 53: merge_database_files(get_database_filepaths())
LoadFiles ==
    /\ mpc = "idle"
    /\ file_paths' = get_database_filepaths(listing)
    /\ batch_i' = 0
    /\ mpc' = "loop"
    /\ UNCHANGED <<restVars, decodeVars, userVars, cleanVars, listing, folder_ok, disk, mb, result, batch_log>>

\* Lines 262-271: the next batch, merged into its target
NextBatch ==
    /\ mpc = "loop"
    /\ batch_i < Len(file_paths)
    /\ EnterBatch("batch", Slice(file_paths, batch_i, batch_i + BATCH_SIZE),
                  Target(batch_i), TRUE)
    /\ UNCHANGED <<restVars, decodeVars, userVars, cleanVars, listing, folder_ok, file_paths, batch_i, result>>

\* Lines 272-276: the temporary target is merged into the final target.  The
\* value merge_batch returned is not looked at.
Fold ==
    /\ mpc = "returned"
    /\ mb.kind = "batch"
    /\ batch_i > 0
    /\ EnterBatch("fold", <<Target(batch_i)>>, MergedPath, FALSE)
    /\ UNCHANGED <<restVars, decodeVars, userVars, cleanVars, listing, folder_ok, file_paths, batch_i, result>>

\* The loop steps to the next batch
Advance ==
    /\ mpc = "returned"
    /\ mb.kind = "fold" \/ batch_i = 0
    /\ batch_i' = batch_i + BATCH_SIZE
    /\ mpc' = "loop"
    /\ UNCHANGED <<restVars, decodeVars, userVars, cleanVars, listing, folder_ok, disk, file_paths, mb, result, batch_log>>

\* Line 277: return True
ReturnMerge ==
    /\ mpc = "loop"
    /\ batch_i >= Len(file_paths)
    /\ result' = "True"
    /\ mpc' = "done"
    /\ UNCHANGED <<restVars, decodeVars, userVars, cleanVars, listing, folder_ok, disk, file_paths, batch_i, mb, batch_log>>

-----------------------------------------------------------------------------
(* The environments a merge runs in *)

OddProfiles == Profiles \ {"ok1"}

ListingsOfLen(k, odd) ==
    UNION {
      { [j \in 1..k |-> IF j \in S THEN f[j] ELSE "ok1"] : f \in [S -> OddProfiles] }
      : S \in {X \in SUBSET (1..k) : Cardinality(X) <= odd} }

MergeIdle ==
    /\ listing = <<>>
    /\ folder_ok = TRUE
    /\ disk = <<>>
    /\ file_paths = <<>>
    /\ mpc = "off"
    /\ batch_i = 0
    /\ mb = NoFrame
    /\ result = "none"
    /\ batch_log = <<>>

InitMerge ==
    /\ DecodeIdle /\ UserIdle /\ CleanIdle /\ RestIdle
    /\ folder_ok \in BOOLEAN
    /\ \E k \in 0..MaxFiles :
         listing \in ListingsOfLen(k, IF folder_ok THEN MaxOdd ELSE MaxOdd - 1)
    /\ disk = InitialDisk(listing)
    /\ file_paths = <<>>
    /\ mpc = "idle"
    /\ batch_i = 0
    /\ mb = NoFrame
    /\ result = "none"
    /\ batch_log = <<>>

NextMerge ==
    \/ LoadFiles
    \/ NextBatch
    \/ Schema
    \/ CopySource
    \/ Commit
    \/ Fold
    \/ Advance
    \/ ReturnMerge

SpecMerge == InitMerge /\ [][NextMerge]_vars

-----------------------------------------------------------------------------
(* Properties of the merge engine *)

RowsOf(store, t) == IF t \in DOMAIN store.tbl THEN store.tbl[t] ELSE {}

MergedRows(t) == IF Exists(disk, MergedPath) THEN RowsOf(disk[MergedPath], t) ELSE {}

RECURSIVE SumRows(_, _)
SumRows(paths, t) ==
    IF Len(paths) = 0 THEN 0
    ELSE Cardinality(RowsOf(disk[Head(paths)], t)) + SumRows(Tail(paths), t)

\* Every given path is an existing store that can be opened and holds table
\* T, and no two of them hold a row with the same key.
NonConflictingSources ==
    /\ folder_ok
    /\ Len(file_paths) >= 1
    /\ \A k \in 1..Len(file_paths) :
         /\ Exists(disk, file_paths[k])
         /\ disk[file_paths[k]].valid
         /\ "T" \in DOMAIN disk[file_paths[k]].tbl
    /\ \A k, l \in 1..Len(file_paths) :
         k # l => RowsOf(disk[file_paths[k]], "T") \cap RowsOf(disk[file_paths[l]], "T") = {}

\* C1: when merge_database_files returns, the merged store holds in table T
\* the sum of the rows of T of all K >= 1 non-conflicting sources, for any K
\* and any file names get_database_filepaths accepts.
C1_MergedHoldsAllRows ==
    (mpc = "done" /\ NonConflictingSources)
        => Cardinality(MergedRows("T")) = SumRows(file_paths, "T")

\* C2: merge_database_files called with an empty list returns false.
C2_EmptyListReturnsFalse ==
    (mpc = "done" /\ Len(file_paths) = 0) => result = "False"

Usable(path) == Exists(disk, path) /\ disk[path].valid

\* C3: merge_database_files returns false when none of the given sources can
\* be opened and when a merge_batch call returned false; it returns true only
\* if at least one source was usable.
C3_FalseWhenNothingOpened ==
    (mpc = "done" /\ Len(file_paths) >= 1)
        => /\ (\A k \in 1..Len(file_paths) : ~Usable(file_paths[k])) => result = "False"
           /\ (\E k \in 1..Len(batch_log) : batch_log[k] = FALSE) => result = "False"
           /\ result = "True" => \E k \in 1..Len(file_paths) : Usable(file_paths[k])

\* The (table, source) pairs of the batch: every known table with every
\* existing source
BatchPairs ==
    {<<mb.tables[k], mb.paths[j]>> :
        k \in 1..Len(mb.tables),
        j \in {i \in 1..Len(mb.paths) : Exists(disk, mb.paths[i])}}

\* C4: when merge_batch has returned after a failed row copy of some (table,
\* source) pair, it returned true, the copy of every other pair of the batch
\* was attempted, and the rows of every pair whose copy succeeded are in the
\* committed target.
C4_FailedCopyIsSkipped ==
    (mpc = "returned" /\ mb.failed # {})
        => /\ batch_log[Len(batch_log)] = TRUE
           /\ mb.attempted = BatchPairs
           /\ \A pair \in mb.attempted \ mb.failed :
                RowsOf(disk[pair[2]], pair[1]) \subseteq RowsOf(disk[mb.target], pair[1])

\* A batch returned in which one copy failed and another, of a source with
\* rows, succeeded
C4_Witness ==
    /\ mpc = "returned"
    /\ mb.failed # {}
    /\ \E pair \in mb.attempted \ mb.failed : RowsOf(disk[pair[2]], pair[1]) # {}

\* C22: during merge_batch at most one source store is attached to the target
\* connection at any moment, each source being detached before the next one is
\* attached, so that the attached stores never exceed the engine ceiling of 10
C22_OneSourceAttached ==
    /\ Cardinality(mb.attached) <= 1
    /\ Cardinality(mb.attached) + 1 <= 10

IsTemporary(path) == Contains(path, TempMergeMark)

\* C23: every temporary target is folded into the final target with schema
\* creation disabled, and when merge_database_files has returned no temporary
\* target store remains
C23_TemporaryTargetsDiscarded ==
    /\ mb.kind = "fold" =>
           /\ ~mb.create_tables
           /\ \A k \in 1..Len(mb.paths) : IsTemporary(mb.paths[k])
    /\ mpc = "done" => \A path \in DOMAIN disk : ~IsTemporary(path)

\* The tables of a store's catalog
CatalogSet(store) == {Catalog(store)[k] : k \in 1..Len(Catalog(store))}

\* C24: once the schema step of a batch with at least one existing source and
\* a target without schema is done, the tables known to the batch are the
\* catalog of one existing source of the batch, and every one of them is in
\* the target before any row is copied
C24_SchemaFromOneReference ==
    (/\ mb.kind = "batch"
     /\ mpc = "copy"
     /\ mb.pos = 1
     /\ \E k \in 1..Len(mb.paths) : Exists(disk, mb.paths[k]))
        => \E k \in 1..Len(mb.paths) :
               /\ Exists(disk, mb.paths[k])
               /\ mb.tables = Catalog(disk[mb.paths[k]])
               /\ CatalogSet(disk[mb.paths[k]]) \subseteq DOMAIN mb.work.tbl

-----------------------------------------------------------------------------
(* Incident decoding: IncidentManager._insert_arguments *)

Letters ==
    {"a", "b", "c", "d", "e", "f", "g", "h", "i", "j", "k", "l", "m",
     "n", "o", "p", "q", "r", "s", "t", "u", "v", "w", "x", "y", "z",
     "A", "B", "C", "D", "E", "F", "G", "H", "I", "J", "K", "L", "M",
     "N", "O", "P", "Q", "R", "S", "T", "U", "V", "W", "X", "Y", "Z"}

IsLetter(c) == c \in Letters

\* c in s, for one character
HasChar(s, c) == \E k \in 1..Len(s) : s[k] = c

\* The longest run of digits of s that starts at pos (empty if none)
RECURSIVE DigitRun(_, _)
DigitRun(s, pos) ==
    IF pos <= Len(s) /\ IsDigit(s[pos])
    THEN <<s[pos]>> \o DigitRun(s, pos + 1)
    ELSE <<>>

\* str(n) and str.zfill for an integer
IntToStr(n) == IF n < 0 THEN <<"-">> \o NatToStr(0 - n) ELSE NatToStr(n)

RECURSIVE Zeros(_)
Zeros(n) == IF n <= 0 THEN <<>> ELSE <<"0">> \o Zeros(n - 1)

ZFill(s, width) ==
    IF Len(s) >= width THEN s
    ELSE IF Len(s) > 0 /\ s[1] \in {"-", "+"}
         THEN <<s[1]>> \o Zeros(width - Len(s)) \o Tail(s)
         ELSE Zeros(width - Len(s)) \o s

\* base_text.split(" ")
RECURSIVE Split(_, _)
Split(s, cur) ==
    IF Len(s) = 0 THEN <<cur>>
    ELSE IF s[1] = " " THEN <<cur>> \o Split(Tail(s), <<>>)
         ELSE Split(Tail(s), Append(cur, s[1]))

\* " ".join(words)
RECURSIVE Join(_)
Join(words) ==
    IF Len(words) = 0 THEN <<>>
    ELSE IF Len(words) = 1 THEN words[1]
         ELSE words[1] \o <<" ">> \o Join(Tail(words))

\* "".join(parts)
RECURSIVE Concat(_)
Concat(parts) == IF Len(parts) = 0 THEN <<>> ELSE Head(parts) \o Concat(Tail(parts))

\* re.findall(r"%[^%]*", word): every part starts at a "%" and runs up to the
\* next one; the text before the first "%" belongs to no part.
RECURSIVE NonPercentRun(_, _)
NonPercentRun(s, pos) ==
    IF pos <= Len(s) /\ s[pos] # "%"
    THEN <<s[pos]>> \o NonPercentRun(s, pos + 1)
    ELSE <<>>

RECURSIVE FindParts(_, _)
FindParts(word, pos) ==
    IF pos > Len(word) THEN <<>>
    ELSE IF word[pos] = "%"
         THEN LET run == NonPercentRun(word, pos + 1)
              IN <<(<<"%">> \o run)>> \o FindParts(word, pos + 1 + Len(run))
         ELSE FindParts(word, pos + 1)

\* re.search(r"%.*?([a-zA-Z])(\d+)", part) on a part that starts with its only
\* "%": the position of the first letter that is followed by a digit, 0 if none
RECURSIVE SuffixLetterFrom(_, _)
SuffixLetterFrom(part, j) ==
    IF j + 1 > Len(part) THEN 0
    ELSE IF IsLetter(part[j]) /\ IsDigit(part[j + 1]) THEN j
         ELSE SuffixLetterFrom(part, j + 1)

SuffixLetter(part) == SuffixLetterFrom(part, 2)

\* Lines 102-122: the positional suffix.  Returns the part and the count.
StripSuffix(part, count) ==
    LET j == SuffixLetter(part)
    IN IF j = 0 THEN [part |-> part, count |-> count]
       ELSE LET numerical_part == StrToNat(DigitRun(part, j + 1))
                sn == NatToStr(numerical_part)
            IN IF numerical_part # count THEN [part |-> part, count |-> count]
               ELSE IF EndsWith(part, sn)
                    THEN [part |-> SubSeq(part, 1, Len(part) - Len(sn)),
                          count |-> count + 1]
                    ELSE IF EndsWith(part, sn \o <<".">>)
                         THEN [part |-> SubSeq(part, 1, Len(part) - Len(sn) - 1) \o <<".">>,
                               count |-> count + 1]
                         ELSE [part |-> part, count |-> count + 1]

\* re.search(r"%(\d+)d", part): the captured width, <<>> if there is no match
WidthOf(part) ==
    LET run == DigitRun(part, 2)
    IN IF Len(run) > 0 /\ Len(part) >= Len(run) + 2 /\ part[Len(run) + 2] = "d"
       THEN run ELSE <<>>

\* re.search(r"%\.(\d+)f", part): the captured precision, <<>> if no match
PrecisionOf(part) ==
    IF Len(part) >= 2 /\ part[2] = "."
    THEN LET run == DigitRun(part, 3)
         IN IF Len(run) > 0 /\ Len(part) >= Len(run) + 3 /\ part[Len(run) + 3] = "f"
            THEN run ELSE <<>>
    ELSE <<>>

\* A real value is kept in thousandths (1500 is 1.5); the values of the model
\* are exact binary fractions, so Python rounds them half to even.
RECURSIVE Pow10(_)
Pow10(n) == IF n = 0 THEN 1 ELSE 10 * Pow10(n - 1)

\* f"{x:.{precision}f}"
FormatFixed(m, precision) ==
    LET scaled == m * Pow10(precision)
        q == scaled \div 1000
        r == scaled % 1000
        n == IF r > 500 \/ (r = 500 /\ q % 2 = 1) THEN q + 1 ELSE q
        ip == n \div Pow10(precision)
        fp == n % Pow10(precision)
    IN IF precision = 0 THEN NatToStr(ip)
       ELSE NatToStr(ip) \o <<".">> \o ZFill(NatToStr(fp), precision)

\* str(x) of a float: the shortest text, with at least one fraction digit
RECURSIVE StripZeros(_)
StripZeros(s) ==
    IF Len(s) > 1 /\ s[Len(s)] = "0" THEN StripZeros(SubSeq(s, 1, Len(s) - 1)) ELSE s

StrReal(m) == NatToStr(m \div 1000) \o <<".">> \o StripZeros(ZFill(NatToStr(m % 1000), 3))

\* INCIDENT_ARGUMENTS: the field a type letter reads
INCIDENT_ARGUMENTS == [d |-> "longValue", s |-> "stringTidxValue", f |-> "realValue"]

\* An argument is a tagged value with exactly one field.
HasField(arg, letter) == arg.field = INCIDENT_ARGUMENTS[letter]

\* Python's None, where a text is expected
None == <<"None">>

\* _get_text_by_index: text_dic.get(index)
get_text_by_index(dic, index) == IF index \in DOMAIN dic THEN dic[index] ELSE None

\* Lines 124, 149, 159: the branch a part takes is the first of d, s, f that
\* occurs anywhere in it
Classify(part) ==
    IF HasChar(part, "d") THEN "d" ELSE IF HasChar(part, "s") THEN "s" ELSE "f"

\* The state of the substitution loop.  raised # "none" once an exception is
\* raised; log keeps, for each part that took an argument, the part as found
\* in the template, the branch taken, the argument and the text the part became.
DecodeState(arglist) ==
    [args |-> arglist, count |-> 0, raised |-> "none", log |-> <<>>]

\* Lines 100-182 for one part: the part after substitution and the new state
SubstitutePart(dic, part0, st) ==
    IF ~(HasChar(part0, "d") \/ HasChar(part0, "s") \/ HasChar(part0, "f"))
    THEN [part |-> part0, st |-> st]
    ELSE
      LET sf == StripSuffix(part0, st.count)
          part == sf.part
          st1 == [st EXCEPT !.count = sf.count]
          letter == Classify(part)
          Raise(e, p) == [part |-> p, st |-> [st1 EXCEPT !.raised = e]]
          Took(p) == [part |-> p,
                      st |-> [st1 EXCEPT
                                !.args = Tail(@),
                                !.log = Append(@, [part |-> part0,
                                                   letter |-> letter,
                                                   arg |-> Head(st1.args),
                                                   text |-> p])]]
      IN IF letter = "d"
         THEN LET digit_len == WidthOf(part)
                  p1 == IF Len(digit_len) > 0 THEN Replace(part, digit_len, <<>>) ELSE part
              IN IF Len(st1.args) = 0 THEN Raise("IndexError", p1)
                 ELSE IF ~HasField(Head(st1.args), "d") THEN Raise("KeyError", p1)
                 ELSE LET str == IntToStr(Head(st1.args).value)
                          digit_to_insert ==
                              IF Len(digit_len) > 0 THEN ZFill(str, StrToNat(digit_len))
                              ELSE str
                      IN Took(Replace(p1, <<"%", "d">>, digit_to_insert))
         ELSE IF letter = "s"
         THEN IF Len(st1.args) = 0 THEN Raise("IndexError", part)
              ELSE IF ~HasField(Head(st1.args), "s") THEN Raise("KeyError", part)
              ELSE LET txt == get_text_by_index(dic, Head(st1.args).value)
                   IN IF txt = None THEN Raise("TypeError", part)
                      ELSE Took(Replace(part, <<"%", "s">>, txt))
         ELSE LET prec == PrecisionOf(part)
              IN IF Len(st1.args) = 0 THEN Raise("IndexError", part)
                 ELSE IF ~HasField(Head(st1.args), "f") THEN Raise("KeyError", part)
                 ELSE IF Len(prec) > 0
                      THEN LET precision == StrToNat(prec)
                           IN Took(Replace(part,
                                           <<"%", ".">> \o NatToStr(precision) \o <<"f">>,
                                           FormatFixed(Head(st1.args).value, precision)))
                      ELSE Took(Replace(part, <<"%", "f">>, StrReal(Head(st1.args).value)))

\* Lines 98-182: the parts of one word, left to right
RECURSIVE SubstituteParts(_, _, _, _)
SubstituteParts(dic, parts, st, done) ==
    IF Len(parts) = 0 \/ st.raised # "none" THEN [parts |-> done, st |-> st]
    ELSE LET r == SubstitutePart(dic, Head(parts), st)
         IN SubstituteParts(dic, Tail(parts), r.st, Append(done, r.part))

\* Lines 89-189: the words of the template, left to right
RECURSIVE SubstituteWords(_, _, _, _)
SubstituteWords(dic, words, st, done) ==
    IF Len(words) = 0 \/ st.raised # "none" THEN [words |-> done, st |-> st]
    ELSE IF HasChar(Head(words), "%")
         THEN LET r == SubstituteParts(dic, FindParts(Head(words), 1), st, <<>>)
              IN SubstituteWords(dic, Tail(words), r.st, Append(done, Concat(r.parts)))
         ELSE SubstituteWords(dic, Tail(words), st, Append(done, Head(words)))

\* find_user_id: the rows of fb_users whose userId equals the bound text, which
\* the integer column compares by its numeric value
find_user_id(dir, digits) ==
    IF StrToNat(digits) \in DOMAIN dir
    THEN <<[user_id |-> StrToNat(digits), user_name |-> dir[StrToNat(digits)]]>>
    ELSE <<>>

UserMark == <<"U", "s", "e", "r", " ">>

\* re.findall(r"User \d+", text), each match kept as its run of digits
RECURSIVE UserMatches(_, _)
UserMatches(txt, pos) ==
    IF pos > Len(txt) THEN <<>>
    ELSE IF StartsWithAt(txt, UserMark, pos) /\ Len(DigitRun(txt, pos + 5)) > 0
         THEN LET digits == DigitRun(txt, pos + 5)
              IN <<digits>> \o UserMatches(txt, pos + 5 + Len(digits))
         ELSE UserMatches(txt, pos + 1)

\* Lines 215-224: one replacement per match, each over the whole text
RECURSIVE ReplaceUsers(_, _, _)
ReplaceUsers(dir, txt, matches) ==
    IF Len(matches) = 0 THEN txt
    ELSE LET query_results == find_user_id(dir, Head(matches))
         IN IF Len(query_results) > 0
            THEN ReplaceUsers(dir,
                              Replace(txt, Head(matches), query_results[1].user_name),
                              Tail(matches))
            ELSE ReplaceUsers(dir, txt, Tail(matches))

check_for_user(dir, txt) == ReplaceUsers(dir, txt, UserMatches(txt, 1))

\* _insert_arguments: the decoded text, or the exception raised; args is the
\* argument list as the call leaves it
insert_arguments(dic, dir, template, arglist) ==
    IF template = None
    THEN [raised |-> "AttributeError", text |-> <<>>, args |-> arglist, log |-> <<>>]
    ELSE LET r == SubstituteWords(dic, Split(template, <<>>), DecodeState(arglist), <<>>)
         IN [raised |-> r.st.raised,
             text |-> IF r.st.raised = "none" THEN check_for_user(dir, Join(r.words))
                      ELSE <<>>,
             args |-> r.st.args,
             log |-> r.st.log]

-----------------------------------------------------------------------------
(* Decoding one template *)

MaxPieces == 3     \* pieces a template is made of
MaxArgs == 2       \* longest argument list

\* The pieces templates are put together from
Pieces ==
    { <<"%", "d">>, <<"%", "0", "2", "d">>, <<"%", "s">>, <<"%", ".", "1", "f">>,
      <<"%", "f">>, <<"%">>, <<"d">>, <<"s">>, <<"0">>, <<"2">>, <<"x">>, <<"#">>,
      <<" ">> }

RECURSIVE Templates(_)
Templates(n) ==
    IF n = 0 THEN {<<>>}
    ELSE LET shorter == Templates(n - 1)
         IN shorter \cup {t \o p : t \in shorter, p \in Pieces}

ArgValues ==
    { [field |-> "longValue", value |-> 5],
      [field |-> "longValue", value |-> 0 - 3],
      [field |-> "stringTidxValue", value |-> 7],
      [field |-> "stringTidxValue", value |-> 9],
      [field |-> "realValue", value |-> 250] }

RECURSIVE ArgLists(_)
ArgLists(n) ==
    IF n = 0 THEN {<<>>}
    ELSE LET shorter == ArgLists(n - 1)
         IN shorter \cup {Append(a, v) : a \in shorter, v \in ArgValues}

\* The dictionary of the session: index 7 is a text, index 9 is not there
SessionDic == [i \in {7} |-> <<"M", "F">>]

SessionUsers == [i \in {4} |-> <<"b", "o", "b">>]

InitDecode ==
    /\ MergeIdle /\ UserIdle /\ CleanIdle /\ RestIdle
    /\ text_dic = SessionDic
    /\ user_dir = SessionUsers
    /\ base_text \in Templates(MaxPieces)
    /\ args \in ArgLists(MaxArgs)
    /\ decoded = NotCalled

\* One call of _insert_arguments
InsertArguments ==
    /\ decoded = NotCalled
    /\ decoded' = insert_arguments(text_dic, user_dir, base_text, args)
    /\ UNCHANGED <<restVars, mergeVars, userVars, cleanVars, text_dic, user_dir, base_text, args>>

NextDecode == InsertArguments

SpecDecode == InitDecode /\ [][NextDecode]_vars

-----------------------------------------------------------------------------
(* Properties of _insert_arguments *)

Called == decoded.raised # "notcalled"

\* Every part of the template, in left-to-right order
RECURSIVE PartsOfWords(_)
PartsOfWords(words) ==
    IF Len(words) = 0 THEN <<>>
    ELSE FindParts(Head(words), 1) \o PartsOfWords(Tail(words))

AllParts(template) == PartsOfWords(Split(template, <<>>))

\* The type letter of a token: "%", an optional width and d; "%s"; "%", an
\* optional "." with a precision and f.  "none" for any other part.
TypedLetter(part) ==
    LET w == DigitRun(part, 2)
        pr == DigitRun(part, 3)
    IN IF Len(part) >= Len(w) + 2 /\ part[Len(w) + 2] = "d" THEN "d"
       ELSE IF Len(part) >= 2 /\ part[2] = "s" THEN "s"
       ELSE IF Len(part) >= 2 /\ part[2] = "f" THEN "f"
       ELSE IF /\ Len(part) >= 2 /\ part[2] = "." /\ Len(pr) > 0
               /\ Len(part) >= Len(pr) + 3 /\ part[Len(pr) + 3] = "f" THEN "f"
       ELSE "none"

IsTyped(part) == TypedLetter(part) # "none"

TypedTokens(template) == SelectSeq(AllParts(template), IsTyped)

LetterOfField(field) ==
    CHOOSE l \in {"d", "s", "f"} : INCIDENT_ARGUMENTS[l] = field

\* The first n arguments have the fields the first n tokens read, and every
\* string index among them is in the dictionary.
ArgsFit(tokens, arglist, n) ==
    \A j \in 1..n :
        /\ HasField(arglist[j], TypedLetter(tokens[j]))
        /\ arglist[j].field = "stringTidxValue" => arglist[j].value \in DOMAIN text_dic

\* A part that is no typed token holds none of the letters d, s, f
HasTypeLetter(part) == HasChar(part, "d") \/ HasChar(part, "s") \/ HasChar(part, "f")

OtherPartsHaveNoLetter(template) ==
    \A j \in 1..Len(AllParts(template)) :
        IsTyped(AllParts(template)[j]) \/ ~HasTypeLetter(AllParts(template)[j])

\* C5: for a template with k typed tokens and at least k arguments, the j-th
\* typed token is rendered from the j-th argument, every typed token takes
\* exactly one argument and the other parts take none.
C5_FifoConsumption ==
    LET toks == TypedTokens(base_text)
    IN (/\ Called
        /\ OtherPartsHaveNoLetter(base_text)
        /\ Len(args) >= Len(toks)
        /\ ArgsFit(toks, args, Len(toks)))
        => /\ decoded.raised = "none"
           /\ Len(decoded.log) = Len(toks)
           /\ decoded.args = SubSeq(args, Len(toks) + 1, Len(args))
           /\ \A j \in 1..Len(toks) :
                /\ decoded.log[j].part = toks[j]
                /\ decoded.log[j].arg = args[j]
                /\ decoded.log[j].letter = TypedLetter(toks[j])

\* A template all of whose parts are typed tokens that take the branch of
\* their own type letter
PlainTemplate(template) ==
    \A j \in 1..Len(AllParts(template)) :
        /\ IsTyped(AllParts(template)[j])
        /\ Classify(AllParts(template)[j]) = TypedLetter(AllParts(template)[j])

\* C6: when a typed token needs an argument and the argument sequence is
\* already exhausted, no exception is raised.
C6_ExhaustedDoesNotRaise ==
    (/\ Called
     /\ PlainTemplate(base_text)
     /\ Len(args) < Len(AllParts(base_text))
     /\ ArgsFit(AllParts(base_text), args, Len(args)))
        => decoded.raised = "none"

\* The positional suffix does not apply to the part (it is the first token)
NoSuffixHere(part) == StripSuffix(part, 0) = [part |-> part, count |-> 0]

\* C8: a token of type s takes the string index of the next argument and is
\* replaced by the dictionary text at that index, whatever literal text
\* follows it in the word; with no such entry no error is raised.
C8_StringTokenResolved ==
    LET parts == AllParts(base_text)
    IN (/\ Called
        /\ Len(parts) = 1
        /\ TypedLetter(parts[1]) = "s"
        /\ NoSuffixHere(parts[1])
        /\ Len(args) >= 1
        /\ HasField(args[1], "s"))
        => /\ decoded.raised = "none"
           /\ Len(decoded.log) = 1
           /\ decoded.log[1].arg = args[1]
           /\ args[1].value \in DOMAIN text_dic
                => decoded.log[1].text = text_dic[args[1].value] \o Drop(parts[1], 3)

\* The template with its single d token replaced by the padded value
RECURSIVE PercentAt(_, _)
PercentAt(template, pos) ==
    IF pos > Len(template) THEN 0
    ELSE IF template[pos] = "%" THEN pos ELSE PercentAt(template, pos + 1)

PaddedValueText(template, value) ==
    LET at == PercentAt(template, 1)
        w == DigitRun(template, at + 1)
    IN SubSeq(template, 1, at - 1)
       \o ZFill(IntToStr(value), StrToNat(w))
       \o Drop(template, at + Len(w) + 2)

\* C9: a token %<w>d is replaced by the next argument's integer value padded
\* with zeros to w digits, %d by the unpadded value; the width digits do not
\* appear in the output and the literal text around the token is unchanged.
C9_PaddedIntegerInPlace ==
    LET parts == AllParts(base_text)
    IN (/\ Called
        /\ Len(parts) = 1
        /\ TypedLetter(parts[1]) = "d"
        /\ NoSuffixHere(parts[1])
        /\ Len(args) >= 1
        /\ HasField(args[1], "d")
        /\ UserMatches(PaddedValueText(base_text, args[1].value), 1) = <<>>)
        => /\ decoded.raised = "none"
           /\ decoded.text = PaddedValueText(base_text, args[1].value)

-----------------------------------------------------------------------------
(* Resolving user names: one call of _check_for_user *)

MaxUserPieces == 5     \* pieces a text is made of

UserPieces == { UserMark, <<"4">>, <<"4", "2">>, <<"x">>, <<" ">> }

RECURSIVE UserTexts(_)
UserTexts(n) ==
    IF n = 0 THEN {<<>>}
    ELSE LET shorter == UserTexts(n - 1)
         IN shorter \cup {t \o p : t \in shorter, p \in UserPieces}

\* The directories of the model: user 4 alone, or users 4 and 42
UserDirs ==
    { SessionUsers,
      [i \in {4, 42} |-> IF i = 4 THEN <<"b", "o", "b">> ELSE <<"j", "s">>] }

InitUser ==
    /\ MergeIdle /\ CleanIdle /\ RestIdle
    /\ text_dic = <<>>
    /\ base_text = <<>>
    /\ args = <<>>
    /\ decoded = NotCalled
    /\ user_dir \in UserDirs
    /\ text \in UserTexts(MaxUserPieces)
    /\ user_text = [called |-> FALSE, text |-> <<>>]

CheckForUser ==
    /\ ~user_text.called
    /\ user_text' = [called |-> TRUE, text |-> check_for_user(user_dir, text)]
    /\ UNCHANGED <<restVars, mergeVars, decodeVars, cleanVars, text>>

NextUser == CheckForUser

SpecUser == InitUser /\ [][NextUser]_vars

\* The text with the digits of every match replaced by the name the
\* directory has for them, in one pass from left to right
RECURSIVE NamesForIds(_, _, _)
NamesForIds(dir, txt, pos) ==
    IF pos > Len(txt) THEN <<>>
    ELSE IF StartsWithAt(txt, UserMark, pos) /\ Len(DigitRun(txt, pos + 5)) > 0
         THEN LET digits == DigitRun(txt, pos + 5)
                  found == find_user_id(dir, digits)
              IN UserMark
                 \o (IF Len(found) > 0 THEN found[1].user_name ELSE digits)
                 \o NamesForIds(dir, txt, pos + 5 + Len(digits))
         ELSE <<txt[pos]>> \o NamesForIds(dir, txt, pos + 1)

\* The text with every match removed
RECURSIVE WithoutMatches(_, _)
WithoutMatches(txt, pos) ==
    IF pos > Len(txt) THEN <<>>
    ELSE IF StartsWithAt(txt, UserMark, pos) /\ Len(DigitRun(txt, pos + 5)) > 0
         THEN WithoutMatches(txt, pos + 5 + Len(DigitRun(txt, pos + 5)))
         ELSE <<txt[pos]>> \o WithoutMatches(txt, pos + 1)

\* Every digit of the text belongs to a match
DigitsOnlyInMatches(txt) ==
    \A k \in 1..Len(WithoutMatches(txt, 1)) : ~IsDigit(WithoutMatches(txt, 1)[k])

\* C10: for every match of "User " and digits, the digits are replaced by the
\* display name when the directory has an entry for the id and are left
\* unchanged when it has none.
C10_EveryMatchResolved ==
    (user_text.called /\ DigitsOnlyInMatches(text))
        => user_text.text = NamesForIds(user_dir, text, 1)

\* C29: _check_for_user changes only the digits of the matched occurrence of
\* "User " and digits; every other character of the text, the same digits
\* elsewhere in the message included, is left unchanged
C29_OnlyTheMatchChanges ==
    (user_text.called /\ Len(UserMatches(text, 1)) = 1)
        => user_text.text = NamesForIds(user_dir, text, 1)

-----------------------------------------------------------------------------
(* clean_data *)

INCIDENT_TYPE ==
    [event |-> "J_INCIDENT_EVENT", warning |-> "J_INCIDENT_WARNING",
     alarm |-> "J_INCIDENT_ALARM"]

INCIDENT_STATE ==
    [one_shot |-> "J_INCIDENT_ONE_SHOT", set |-> "J_INCIDENT_SET",
     clear |-> "J_INCIDENT_CLEAR"]

INCIDENT_COLORS ==
    [clear |-> "#77797d", event |-> "#05e81b", warning |-> "#e88605",
     alarm |-> "#e80505", black_text |-> "#000000"]

\* The colours as they would be if one_shot were shown like clear
get_incident_color_one_shot_as_clear(entry) ==
    IF entry.state \in {INCIDENT_STATE.clear, INCIDENT_STATE.one_shot}
    THEN IF entry.type = INCIDENT_TYPE.event
         THEN <<INCIDENT_COLORS.clear, INCIDENT_COLORS.event>>
         ELSE IF entry.type = INCIDENT_TYPE.warning
              THEN <<INCIDENT_COLORS.clear, INCIDENT_COLORS.warning>>
              ELSE <<INCIDENT_COLORS.clear, INCIDENT_COLORS.alarm>>
    ELSE IF entry.type = INCIDENT_TYPE.event
         THEN <<INCIDENT_COLORS.event, INCIDENT_COLORS.black_text>>
         ELSE IF entry.type = INCIDENT_TYPE.warning
              THEN <<INCIDENT_COLORS.warning, INCIDENT_COLORS.black_text>>
              ELSE <<INCIDENT_COLORS.alarm, INCIDENT_COLORS.black_text>>

\* get_incident_color: <<label colour, text colour>>
get_incident_color(entry) ==
    IF entry.state = INCIDENT_STATE.clear
    THEN IF entry.type = INCIDENT_TYPE.event
         THEN <<INCIDENT_COLORS.clear, INCIDENT_COLORS.event>>
         ELSE IF entry.type = INCIDENT_TYPE.warning
              THEN <<INCIDENT_COLORS.clear, INCIDENT_COLORS.warning>>
              ELSE <<INCIDENT_COLORS.clear, INCIDENT_COLORS.alarm>>
    ELSE IF entry.type = INCIDENT_TYPE.event
         THEN <<INCIDENT_COLORS.event, INCIDENT_COLORS.black_text>>
         ELSE IF entry.type = INCIDENT_TYPE.warning
              THEN <<INCIDENT_COLORS.warning, INCIDENT_COLORS.black_text>>
              ELSE <<INCIDENT_COLORS.alarm, INCIDENT_COLORS.black_text>>

\* A timestamp is a count of nanoseconds, kept as [sec, nsec] with
\* count = sec * 10^9 + nsec, because the count itself is beyond the integers
\* of the model.  timestamp / 1_000_000_000 is then sec and a fraction that
\* strftime("%S") cuts off.
TimestampSeconds(ts) == ts.sec

\* The calendar date of a day number counted from 1970-01-01
CivilFromDays(days) ==
    LET z == days + 719468
        era == z \div 146097
        doe == z - era * 146097
        yoe == (doe - doe \div 1460 + doe \div 36524 - doe \div 146096) \div 365
        doy == doe - (365 * yoe + yoe \div 4 - yoe \div 100)
        mp == (5 * doy + 2) \div 153
        d == doy - (153 * mp + 2) \div 5 + 1
        m == IF mp < 10 THEN mp + 3 ELSE mp - 9
        y == yoe + era * 400 + (IF m <= 2 THEN 1 ELSE 0)
    IN [year |-> y, month |-> m, day |-> d]

\* convert_timestamp_to_readable, for a process whose local time is UTC:
\* strftime("%Y-%m-%d %H:%M:%S")
convert_timestamp_to_readable(ts) ==
    LET secs == TimestampSeconds(ts)
        date == CivilFromDays(secs \div 86400)
        rest == secs % 86400
    IN ZFill(NatToStr(date.year), 4) \o <<"-">> \o ZFill(NatToStr(date.month), 2)
       \o <<"-">> \o ZFill(NatToStr(date.day), 2) \o <<" ">>
       \o ZFill(NatToStr(rest \div 3600), 2) \o <<":">>
       \o ZFill(NatToStr((rest % 3600) \div 60), 2) \o <<":">>
       \o ZFill(NatToStr(rest % 60), 2)

\* html.unescape, for the character references &lt; &gt; &amp; in one pass
RECURSIVE Unescape(_)
Unescape(s) ==
    IF Len(s) = 0 THEN s
    ELSE IF StartsWithAt(s, <<"&", "l", "t", ";">>, 1)
         THEN <<"<">> \o Unescape(Drop(s, 5))
    ELSE IF StartsWithAt(s, <<"&", "g", "t", ";">>, 1)
         THEN <<">">> \o Unescape(Drop(s, 5))
    ELSE IF StartsWithAt(s, <<"&", "a", "m", "p", ";">>, 1)
         THEN <<"&">> \o Unescape(Drop(s, 6))
    ELSE <<s[1]>> \o Unescape(Drop(s, 2))

\* Position of the first ">" of s at or after pos, 0 when there is none
RECURSIVE TagEnd(_, _)
TagEnd(s, pos) ==
    IF pos > Len(s) THEN 0
    ELSE IF s[pos] = ">" THEN pos
    ELSE TagEnd(s, pos + 1)

\* A tag opens at pos: "<" then a letter or "/", and a ">" further on
TagOpensAt(s, pos) ==
    /\ s[pos] = "<"
    /\ pos < Len(s)
    /\ (IsLetter(s[pos + 1]) \/ s[pos + 1] = "/")
    /\ TagEnd(s, pos) # 0

\* The text nodes of the parsed markup, in document order
RECURSIVE TextNodes(_, _, _)
TextNodes(s, pos, cur) ==
    IF pos > Len(s) THEN (IF Len(cur) = 0 THEN <<>> ELSE <<cur>>)
    ELSE IF TagOpensAt(s, pos)
         THEN (IF Len(cur) = 0 THEN <<>> ELSE <<cur>>)
              \o TextNodes(s, TagEnd(s, pos) + 1, <<>>)
         ELSE TextNodes(s, pos + 1, Append(cur, s[pos]))

\* separator.join(nodes) with the separator "/n"
RECURSIVE JoinNodes(_)
JoinNodes(nodes) ==
    IF Len(nodes) = 0 THEN <<>>
    ELSE IF Len(nodes) = 1 THEN nodes[1]
    ELSE nodes[1] \o <<"/", "n">> \o JoinNodes(Tail(nodes))

\* _parse_help_text; html.unescape(None) raises TypeError
parse_help_text(base_help_text) ==
    IF base_help_text = None
    THEN [raised |-> "TypeError", text |-> <<>>]
    ELSE [raised |-> "none", text |-> JoinNodes(TextNodes(Unescape(base_help_text), 1, <<>>))]

MaxEntries == 2    \* raw entries of one batch

\* The dictionary of the session: 1 and 2 are message templates, 3 and 4 help
\* texts, 7 a text a message names; index 9 is not there
CleanDic ==
    (1 :> <<"L", "e", "v", "e", "l", " ", "%", "0", "2", "d">>) @@ (2 :> <<"M", "o", "d", "e", " ", "%", "s">>) @@ (3 :> <<"&", "l", "t", ";", "b", "&", "g", "t", ";", "S", "t", "o", "p", "&", "l", "t", ";", "/", "b", "&", "g", "t", ";", "n", "o", "w">>) @@ (4 :> <<"C", "h", "e", "c", "k">>) @@ (7 :> <<"M", "F">>)

EntryTypes == {INCIDENT_TYPE.event, INCIDENT_TYPE.warning, INCIDENT_TYPE.alarm}

EntryStates == {INCIDENT_STATE.one_shot, INCIDENT_STATE.set, INCIDENT_STATE.clear}

\* Entries whose templates are in the dictionary and whose arguments suffice
GoodEntries ==
    { [timestamp |-> [sec |-> 1700000000, nsec |-> 0], tidx |-> 1, help_tidx |-> 3,
       type |-> ty, state |-> st, args |-> <<[field |-> "longValue", value |-> 5]>>]
        : ty \in EntryTypes, st \in EntryStates }
    \cup
    { [timestamp |-> [sec |-> 951782399, nsec |-> 500000000], tidx |-> 2, help_tidx |-> 4,
       type |-> ty, state |-> st, args |-> <<[field |-> "stringTidxValue", value |-> 7]>>]
        : ty \in EntryTypes, st \in EntryStates }

\* Entries with a base template that is not there, a help template that is
\* not there, too few arguments
OddEntries ==
    { [timestamp |-> [sec |-> 1700000000, nsec |-> 0], tidx |-> 9, help_tidx |-> 3,
       type |-> INCIDENT_TYPE.alarm, state |-> INCIDENT_STATE.set,
       args |-> <<[field |-> "longValue", value |-> 5]>>],
      [timestamp |-> [sec |-> 1700000000, nsec |-> 0], tidx |-> 1, help_tidx |-> 9,
       type |-> INCIDENT_TYPE.alarm, state |-> INCIDENT_STATE.set,
       args |-> <<[field |-> "longValue", value |-> 5]>>],
      [timestamp |-> [sec |-> 1700000000, nsec |-> 0], tidx |-> 1, help_tidx |-> 3,
       type |-> INCIDENT_TYPE.alarm, state |-> INCIDENT_STATE.set,
       args |-> <<>>] }

RECURSIVE Batches(_)
Batches(n) ==
    IF n = 0 THEN {<<>>}
    ELSE LET shorter == Batches(n - 1)
         IN shorter \cup {Append(b, e) : b \in shorter, e \in GoodEntries \cup OddEntries}

\* process_incidents has filled db_entries and calls clean_data
InitClean ==
    /\ MergeIdle /\ UserIdle /\ RestIdle
    /\ text_dic = CleanDic
    /\ user_dir = SessionUsers
    /\ base_text = <<>>
    /\ args = <<>>
    /\ decoded = NotCalled
    /\ raw_incidents \in Batches(MaxEntries)
    /\ db_entries = raw_incidents
    /\ true_incidents = <<>>
    /\ entry_i = 1
    /\ cpc = "loop"

\* Lines 314-332 for one entry, given what the calls made for it return: the
\* exception that leaves clean_data, the entry's arguments as the call of
\* _insert_arguments leaves them, and the incident appended
CleanStep(entry, timestamp, help, out, color) ==
    IF help.raised # "none"
    THEN [raised |-> help.raised, args |-> entry.args, incident |-> <<>>]
    ELSE IF out.raised # "none"
    THEN [raised |-> out.raised, args |-> out.args, incident |-> <<>>]
    ELSE [raised |-> "none", args |-> out.args,
          incident |-> <<[timestamp |-> timestamp, help_text |-> help.text,
                          text |-> out.text, label_color |-> color[1],
                          text_color |-> color[2]]>>]

\* A turn of the loop in which all entries hold one and the same argument list
ApplyStepSharedArguments(step) ==
    /\ db_entries' = [j \in DOMAIN db_entries |->
                          [db_entries[j] EXCEPT !.args = step.args]]
    /\ true_incidents' = true_incidents \o step.incident
    /\ entry_i' = IF step.raised = "none" THEN entry_i + 1 ELSE entry_i
    /\ cpc' = IF step.raised = "none" THEN cpc ELSE step.raised

\* What one turn of the loop does with the step of its entry
ApplyStep(step) ==
    /\ db_entries' = [db_entries EXCEPT ![entry_i].args = step.args]
    /\ true_incidents' = true_incidents \o step.incident
    /\ entry_i' = IF step.raised = "none" THEN entry_i + 1 ELSE entry_i
    /\ cpc' = IF step.raised = "none" THEN cpc ELSE step.raised

\* One turn of the loop of clean_data.  An exception leaves the loop and
\* clean_data; the arguments _insert_arguments popped stay popped.
CleanEntry ==
    /\ cpc = "loop"
    /\ entry_i <= Len(db_entries)
    /\ ApplyStep(CleanStep(db_entries[entry_i],
                           convert_timestamp_to_readable(db_entries[entry_i].timestamp),
                           parse_help_text(get_text_by_index(text_dic,
                                                             db_entries[entry_i].help_tidx)),
                           insert_arguments(text_dic, user_dir,
                                            get_text_by_index(text_dic,
                                                              db_entries[entry_i].tidx),
                                            db_entries[entry_i].args),
                           get_incident_color(db_entries[entry_i])))
    /\ UNCHANGED <<restVars, mergeVars, decodeVars, userVars, raw_incidents>>

\* The loop has gone through db_entries: clean_data returns
CleanReturn ==
    /\ cpc = "loop"
    /\ entry_i > Len(db_entries)
    /\ cpc' = "done"
    /\ UNCHANGED <<restVars, mergeVars, decodeVars, userVars, raw_incidents, db_entries, true_incidents,
                   entry_i>>

NextClean == CleanEntry \/ CleanReturn

SpecClean == InitClean /\ [][NextClean]_vars

-----------------------------------------------------------------------------
(* Properties of clean_data *)

Malformed(entry) ==
    \/ entry.tidx \notin DOMAIN text_dic
    \/ entry.help_tidx \notin DOMAIN text_dic
    \/ Len(entry.args) < Len(TypedTokens(text_dic[entry.tidx]))

CleanEnded == cpc \notin {"off", "loop"}

\* How many entries of the batch, as it was read, are malformed
MalformedCount ==
    Cardinality({j \in 1..Len(raw_incidents) : Malformed(raw_incidents[j])})

\* C7: once clean_data has ended on a batch of N entries with exactly one
\* malformed entry, it has returned without an exception and N-1 incidents
\* are decoded.
C7_BatchSurvivesMalformedEntry ==
    (CleanEnded /\ MalformedCount = 1)
        => (cpc = "done" /\ Len(true_incidents) = Len(db_entries) - 1)

-----------------------------------------------------------------------------
(* Properties of get_incident_color *)

\* The colour the table gives a type
ColourOfType(type) ==
    CASE type = "J_INCIDENT_EVENT" -> "#05e81b"
      [] type = "J_INCIDENT_WARNING" -> "#e88605"
      [] type = "J_INCIDENT_ALARM" -> "#e80505"

\* The pair the table gives a type and a state
TableColours(type, state) ==
    IF state = "J_INCIDENT_CLEAR"
    THEN <<"#77797d", ColourOfType(type)>>
    ELSE <<ColourOfType(type), "#000000">>

\* C11: every incident clean_data has appended carries the colours the table
\* gives the type and state of its entry: (clear colour, colour of the type)
\* for state clear, (colour of the type, black) for set and one_shot; two
\* entries of the same type and state get the same colours.
C11_ColourTable ==
    \A j \in 1..Len(true_incidents) :
        /\ <<true_incidents[j].label_color, true_incidents[j].text_color>>
               = TableColours(raw_incidents[j].type, raw_incidents[j].state)
        /\ \A k \in 1..Len(true_incidents) :
               (/\ raw_incidents[k].type = raw_incidents[j].type
                /\ raw_incidents[k].state = raw_incidents[j].state)
                   => /\ true_incidents[k].label_color = true_incidents[j].label_color
                      /\ true_incidents[k].text_color = true_incidents[j].text_color

\* An alarm in state clear shown grey on red next to an alarm in state
\* one_shot shown red on black
C11_Witness ==
    \E j, k \in 1..Len(true_incidents) :
        /\ raw_incidents[j].type = "J_INCIDENT_ALARM"
        /\ raw_incidents[j].state = "J_INCIDENT_CLEAR"
        /\ true_incidents[j].label_color = "#77797d"
        /\ true_incidents[j].text_color = "#e80505"
        /\ raw_incidents[k].type = "J_INCIDENT_ALARM"
        /\ raw_incidents[k].state = "J_INCIDENT_ONE_SHOT"
        /\ true_incidents[k].label_color = "#e80505"
        /\ true_incidents[k].text_color = "#000000"

-----------------------------------------------------------------------------
(* Decoding templates whose tokens carry positional suffixes *)

MaxSuffixPieces == 3    \* pieces such a template is made of

\* Tokens without suffix and with the suffixes 0 and 1, and what separates them
SuffixPieces ==
    { <<"%", "d">>, <<"%", "s">>, <<"%", "d", "0">>, <<"%", "s", "0">>,
      <<"%", "d", "1">>, <<"%", "s", "1">>, <<" ">>, <<"x">> }

RECURSIVE SuffixTemplates(_)
SuffixTemplates(n) ==
    IF n = 0 THEN {<<>>}
    ELSE LET shorter == SuffixTemplates(n - 1)
         IN shorter \cup {t \o p : t \in shorter, p \in SuffixPieces}

InitSuffix ==
    /\ MergeIdle /\ UserIdle /\ CleanIdle /\ RestIdle
    /\ text_dic = SessionDic
    /\ user_dir = SessionUsers
    /\ base_text \in SuffixTemplates(MaxSuffixPieces)
    /\ args \in ArgLists(MaxArgs)
    /\ decoded = NotCalled

SpecSuffix == InitSuffix /\ [][NextDecode]_vars

\* The digits after the type letter of a token "%d<digits>" or "%s<digits>";
\* <<>> for any other part
SuffixDigits(part) ==
    IF /\ Len(part) >= 3
       /\ part[2] \in {"d", "s"}
       /\ Len(DigitRun(part, 3)) = Len(part) - 2
    THEN DigitRun(part, 3) ELSE <<>>

\* What a token "%d" or "%s" without suffix becomes with an argument
BareText(letter, arg) ==
    IF letter = "d" THEN IntToStr(arg.value) ELSE text_dic[arg.value]

\* C25: a token whose positional suffix equals the number of arguments
\* consumed before it is rendered without the suffix, at every position of
\* the template, also when earlier tokens carried no suffix
C25_MatchingSuffixStripped ==
    (Called /\ ArgsFit(TypedTokens(base_text), args, Len(decoded.log)))
        => \A j \in 1..Len(decoded.log) :
               SuffixDigits(decoded.log[j].part) = NatToStr(j - 1)
                   => decoded.log[j].text
                          = BareText(decoded.log[j].letter, decoded.log[j].arg)

-----------------------------------------------------------------------------
(* Properties of the argument lists in clean_data *)

\* What is left of an entry's arguments once its template is decoded: one
\* value is gone from the front for each typed token
ArgsLeft(entry) ==
    SubSeq(entry.args, Len(TypedTokens(text_dic[entry.tidx])) + 1, Len(entry.args))

\* C19: argument consumption is per entry: an entry that is decoded has lost
\* one value from the front of its own arguments per typed token, every entry
\* not yet decoded has its arguments as they were read, and the text of a
\* decoded entry is what _insert_arguments gives for that entry alone
C19_ConsumptionPerEntry ==
    \A j \in 1..Len(db_entries) :
        /\ (j > entry_i \/ (j = entry_i /\ cpc = "loop"))
               => db_entries[j].args = raw_incidents[j].args
        /\ j < entry_i
               => /\ db_entries[j].args = ArgsLeft(raw_incidents[j])
                  /\ true_incidents[j].text =
                         insert_arguments(text_dic, user_dir,
                                          text_dic[raw_incidents[j].tidx],
                                          raw_incidents[j].args).text

\* The first entry is decoded and has lost its argument, the second, with
\* another template, still has its own
C19_Witness ==
    /\ cpc = "loop"
    /\ entry_i = 2
    /\ Len(db_entries) = 2
    /\ raw_incidents[1].args # <<>>
    /\ db_entries[1].args = <<>>
    /\ raw_incidents[1].tidx # raw_incidents[2].tidx
    /\ db_entries[2].args = raw_incidents[2].args
    /\ db_entries[2].args # <<>>

-----------------------------------------------------------------------------
(* load_text_dic *)

\* An item element has no child of the name asked for: item.find gives None
NoElem == <<"NoElem">>

\* s.strip() for blanks
RECURSIVE StripBlanks(_)
StripBlanks(s) ==
    IF Len(s) = 0 THEN s
    ELSE IF s[1] = " " THEN StripBlanks(Tail(s))
    ELSE IF s[Len(s)] = " " THEN StripBlanks(SubSeq(s, 1, Len(s) - 1))
    ELSE s

\* int(s) for a text s: blanks around, a sign, decimal digits; anything else
\* is a ValueError
PyInt(s) ==
    LET t == StripBlanks(s)
        signed == Len(t) > 0 /\ t[1] \in {"+", "-"}
        digits == IF signed THEN Tail(t) ELSE t
        ok == Len(digits) > 0 /\ \A k \in 1..Len(digits) : IsDigit(digits[k])
    IN [ok |-> ok,
        value |-> IF ~ok THEN 0
                  ELSE IF signed /\ t[1] = "-" THEN 0 - StrToNat(digits)
                  ELSE StrToNat(digits)]

\* self.text_dic[index_num] = text_content
StoreText(dic, n, content) ==
    [k \in (DOMAIN dic) \cup {n} |-> IF k = n THEN content ELSE dic[k]]

MaxItems == 3      \* item elements of the document

\* The item elements documents are made of: index and text are the text of
\* the child element, None for a child without text, NoElem for no child
ItemKinds ==
    { [index |-> <<"1">>, text |-> <<"a">>],
      [index |-> <<"1">>, text |-> <<"b">>],
      [index |-> <<"2">>, text |-> <<"a">>],
      [index |-> <<" ", "2">>, text |-> None],
      [index |-> <<"-", "3">>, text |-> <<"b">>],
      [index |-> NoElem, text |-> <<"a">>],
      [index |-> <<"1">>, text |-> NoElem],
      [index |-> <<"x">>, text |-> <<"a">>],
      [index |-> None, text |-> <<"a">>] }

RECURSIVE Documents(_)
Documents(n) ==
    IF n = 0 THEN {<<>>}
    ELSE LET shorter == Documents(n - 1)
         IN shorter \cup {Append(d, it) : d \in shorter, it \in ItemKinds}

\* What is not the dictionary loader's state
notDic == <<mergeVars, userVars, cleanVars, user_dir, base_text, args, decoded, othersDic>>

\* A new IncidentManager about to load the file at xml_file_path, which is a
\* document of items or cannot be parsed (no file, no XML)
InitDic ==
    /\ MergeIdle /\ UserIdle /\ CleanIdle /\ DecodeIdle /\ OthersIdleDic
    /\ xml_doc \in [readable : {TRUE}, items : Documents(MaxItems)]
                   \cup {[readable |-> FALSE, items |-> <<>>]}
    /\ item_i = 0
    /\ dpc = "start"

\* ET.parse and root.findall; a failure is caught by the outer except
ParseXml ==
    /\ dpc = "start"
    /\ IF xml_doc.readable
       THEN dpc' = "loop" /\ item_i' = 1
       ELSE dpc' = "ParseError" /\ UNCHANGED item_i
    /\ UNCHANGED <<notDic, text_dic, xml_doc>>

\* One turn of the loop over the items.  int(None) raises TypeError, which the
\* inner except ValueError lets through to the outer except: the loop ends.
LoadItem ==
    /\ dpc = "loop"
    /\ item_i <= Len(xml_doc.items)
    /\ LET item == xml_doc.items[item_i]
       IN IF item.index = NoElem \/ item.text = NoElem
          THEN item_i' = item_i + 1 /\ UNCHANGED <<text_dic, dpc>>
          ELSE IF item.index = None
          THEN dpc' = "TypeError" /\ UNCHANGED <<text_dic, item_i>>
          ELSE IF ~PyInt(item.index).ok
          THEN item_i' = item_i + 1 /\ UNCHANGED <<text_dic, dpc>>
          ELSE /\ text_dic' = StoreText(text_dic, PyInt(item.index).value,
                                        IF item.text = None THEN <<>> ELSE item.text)
               /\ item_i' = item_i + 1
               /\ UNCHANGED dpc
    /\ UNCHANGED <<notDic, xml_doc>>

\* The loop has gone through the items
LoadReturn ==
    /\ dpc = "loop"
    /\ item_i > Len(xml_doc.items)
    /\ dpc' = "done"
    /\ UNCHANGED <<notDic, text_dic, xml_doc, item_i>>

NextDic == ParseXml \/ LoadItem \/ LoadReturn

SpecDic == InitDic /\ [][NextDic]_vars

-----------------------------------------------------------------------------
(* Properties of load_text_dic *)

LoadEnded == dpc \notin {"off", "start", "loop"}

\* An item with both fields and an integer index
Storable(item) ==
    /\ item.index # NoElem
    /\ item.text # NoElem
    /\ item.index # None
    /\ PyInt(item.index).ok

IndexOf(item) == PyInt(item.index).value

\* The position of the last storable item of the document with index n
LastWith(items, n) ==
    CHOOSE j \in 1..Len(items) :
        /\ Storable(items[j]) /\ IndexOf(items[j]) = n
        /\ \A k \in (j + 1)..Len(items) : ~(Storable(items[k]) /\ IndexOf(items[k]) = n)

\* Every storable item stored, the last one of an index winning
DicOfDocument(items) ==
    [n \in {IndexOf(items[j]) : j \in {i \in 1..Len(items) : Storable(items[i])}} |->
        LET t == items[LastWith(items, n)].text
        IN IF t = None THEN <<>> ELSE t]

\* C12: when load_text_dic has ended on a document, the dictionary holds every
\* item that has both fields and an integer index, the last item of an index
\* winning, whatever items were skipped before them.
C12_EveryStorableItemLoaded ==
    (LoadEnded /\ xml_doc.readable) => text_dic = DicOfDocument(xml_doc.items)

\* C26: when load_text_dic has ended, the dictionary is never partially
\* valid: it holds the mapping of every valid item of the document or
\* nothing, also when an error was met in the middle of the document
C26_FullyLoadedOrAbsent ==
    LoadEnded =>
        \/ DOMAIN text_dic = {}
        \/ text_dic = DicOfDocument(xml_doc.items)

-----------------------------------------------------------------------------
(* enter_time_zone_offset *)

\* Timestamps are counts of nanoseconds kept as [sec, nsec].  Between 2^60 and
\* 2^61 ns (the years 2006 to 2043) the floats lie 256 ns apart, and 10^9 is a
\* multiple of 256, so the float nearest to a count is found from its nsec.
FloatStep == 256

NsPerSec == 1000000000

\* float(timestamp): the nearest float, the one with the even mantissa at a tie
Float64(ts) ==
    LET r == ts.nsec % FloatStep
        q == ts.nsec \div FloatStep
        down == ts.nsec - r
        up == IF 2 * r < FloatStep THEN FALSE
              ELSE IF 2 * r > FloatStep THEN TRUE
              ELSE q % 2 = 1
        n == IF up THEN down + FloatStep ELSE down
    IN IF n = NsPerSec THEN [sec |-> ts.sec + 1, nsec |-> 0]
       ELSE [sec |-> ts.sec, nsec |-> n]

\* offset = (time_zone_offset / 100) * 60 * 60 * 1_000_000_000, a float that
\* is the whole number of seconds time_zone_offset * 36 for the offsets used
OffsetSeconds(tz_offset) == tz_offset * 36

\* int(float(entry["timestamp"])) + offset: a float sum of two multiples of
\* 256 ns, which is exact
AdjustedTimestamp(ts, tz_offset) ==
    LET original_timestamp == Float64(ts)
    IN [sec |-> original_timestamp.sec + OffsetSeconds(tz_offset),
        nsec |-> original_timestamp.nsec]

\* The loops over the entries of one series
ShiftSeries(series, tz_offset) ==
    [k \in 1..Len(series) |->
        [series[k] EXCEPT !.timestamp = AdjustedTimestamp(@, tz_offset)]]

\* enter_time_zone_offset: io and vfd, then preset
enter_time_zone_offset(d, tz_offset) ==
    [io |-> ShiftSeries(d.io, tz_offset),
     vfd |-> ShiftSeries(d.vfd, tz_offset),
     preset |-> ShiftSeries(d.preset, tz_offset)]

MaxApply == 2      \* calls of enter_time_zone_offset on the same data

\* The rows of a series
SampleTimes ==
    { [sec |-> 1700000000, nsec |-> 0],
      [sec |-> 1700000000, nsec |-> 1000000],
      [sec |-> 1700000000, nsec |-> 123456789],
      [sec |-> 1700000000, nsec |-> 999999999] }

SampleRows == [timestamp : SampleTimes, value : {0, 5}]

\* Offsets in hours x 100 for which the float product is the exact count
ShiftOffsets == {800, 0 - 330, 100}

notShift == <<mergeVars, decodeVars, userVars, cleanVars, othersShift>>

\* process_data has read one row of an io point, of a vfd point and of a
\* point of a preset
InitShift ==
    /\ MergeIdle /\ DecodeIdle /\ UserIdle /\ CleanIdle /\ OthersIdleShift
    /\ samples \in [io : {<<r>> : r \in SampleRows},
                    vfd : {<<r>> : r \in SampleRows},
                    preset : {<<r>> : r \in SampleRows}]
    /\ data = samples
    /\ shift_arg \in ShiftOffsets
    /\ applied = 0

\* One call of enter_time_zone_offset on the data
EnterTimeZoneOffset ==
    /\ applied < MaxApply
    /\ data' = enter_time_zone_offset(data, shift_arg)
    /\ applied' = applied + 1
    /\ UNCHANGED <<notShift, samples, shift_arg>>

NextShift == EnterTimeZoneOffset

SpecShift == InitShift /\ [][NextShift]_vars

-----------------------------------------------------------------------------
(* Properties of enter_time_zone_offset *)

\* The row k of a series shifted by exactly n times the offset, its value kept
ShiftedExactly(row, row0, n) ==
    /\ row.timestamp = [sec |-> row0.timestamp.sec + n * shift_arg * 36,
                        nsec |-> row0.timestamp.nsec]
    /\ row.value = row0.value

\* C13: after n calls every timestamp of the io, vfd and preset series is its
\* original plus exactly n x (offset / 100) x 3600 x 10^9 ns and no value has
\* changed; one call of +800 gives T + 8 h, a second call T + 16 h.
C13_ExactShiftPerCall ==
    /\ \A k \in 1..Len(data.io) : ShiftedExactly(data.io[k], samples.io[k], applied)
    /\ \A k \in 1..Len(data.vfd) : ShiftedExactly(data.vfd[k], samples.vfd[k], applied)
    /\ \A k \in 1..Len(data.preset) :
           ShiftedExactly(data.preset[k], samples.preset[k], applied)

-----------------------------------------------------------------------------
(* The session: requests, workers and the UI thread *)

\* bool(self.time_zone_offset): None and 0 are false
Truthy(offset) == offset # <<>> /\ offset[1] # 0

\* get_time_zone_offset on the merged store: the parameter's value, None when
\* the parameter has no value row; without the parameter row tidx[0] raises
LookupRaises == store_param = "NoParam"

LookupResult ==
    CASE store_param = "NoValue" -> <<>>
      [] store_param = "Zero" -> <<0>>
      [] store_param = "Value" -> <<800>>
      [] OTHER -> <<>>

\* _ask_for_timezone_offset: None when the user declines or cancels, else
\* the hours entered x 100
PromptAnswers == {<<>>, <<0>>, <<500>>}

\* _update_ui_safe: root.after(0, update) puts the callback in the queue
Post(queue, message) == Append(queue, message)

RECURSIVE PostAll(_, _)
PostAll(queue, messages) ==
    IF Len(messages) = 0 THEN queue
    ELSE PostAll(Post(queue, Head(messages)), Tail(messages))

\* A widget configured by a thread
Touch(w, widget, thread) == w \cup {[widget |-> widget, by |-> thread]}

\* What a worker did to the timestamps: shifted by an offset, or passed on
Shifted(offset) == <<"shift", offset[1]>>

Passed == <<"pass">>

MaxClicks == 1     \* clicks on the generate button
CountCap == 3      \* the counters of lookups and prompts stop here

Count(n) == IF n < CountCap THEN n + 1 ELSE n

\* The workers of a request are running
GraphActive == gpc \notin {"idle", "done", "failed in get_time_zone_offset"}

IncidentActive ==
    ipc \notin {"idle", "done", "raised in get_xml_file", "raised in clean_data",
                "raised in get_time_zone_offset"}

ReportActive == rpc \notin {"idle", "done", "raised in get_time_zone_offset"}

GraphParams ==
    { [files |-> TRUE, points |-> TRUE, include_csv |-> TRUE],
      [files |-> FALSE, points |-> TRUE, include_csv |-> FALSE],
      [files |-> TRUE, points |-> FALSE, include_csv |-> FALSE] }

notSession == <<mergeVars, decodeVars, userVars, cleanVars, othersSession>>

\* The application is started, no merged store exists, nothing was requested
InitSession ==
    /\ MergeIdle /\ DecodeIdle /\ UserIdle /\ CleanIdle /\ OthersIdleSession
    /\ store_param \in {"NoParam", "NoValue", "Zero", "Value"}
    /\ has_dic \in BOOLEAN
    /\ merged_file = None
    /\ file_ready_event = FALSE
    /\ time_zone_offset = <<>>
    /\ timezone_ready = FALSE
    /\ merging = {}
    /\ gpc = "idle" /\ g_params = <<>> /\ g_local = <<>> /\ g_shift = <<>>
    /\ ipc = "idle" /\ i_local = <<>> /\ i_shift = <<>>
    /\ rpc = "idle" /\ r_shift = <<>>
    /\ ui_queue = <<>>
    /\ status = ""
    /\ widgets = {}
    /\ buttons = {"generate", "populate"}
    /\ clicks = 0
    /\ populated = FALSE
    /\ lookups = 0
    /\ prompts = 0
    /\ store_file = FALSE
    /\ delete_pc = "idle"
    /\ delete_report = ""
    /\ loads = 0
    /\ unreset_load = FALSE

(* The UI thread *)

\* on_generate_clicked and on_generate_graphs: the UI thread shows the status,
\* disables the button, clears file_ready_event and starts the graph worker
OnGenerateClicked ==
    /\ "generate" \in buttons
    /\ gpc \in {"idle", "done", "failed in get_time_zone_offset"}
    /\ clicks < MaxClicks
    /\ \E params \in GraphParams : g_params' = params
    /\ status' = "Starting graph generation..."
    /\ buttons' = buttons \ {"generate"}
    /\ widgets' = Touch(Touch(Touch(widgets, "status", "ui"), "progress", "ui"),
                     "generate", "ui")
    /\ file_ready_event' = FALSE
    /\ clicks' = clicks + 1
    /\ g_local' = <<>>
    /\ g_shift' = <<>>
    /\ gpc' = "g_check_file"
    /\ UNCHANGED <<notSession, store_param, has_dic, merged_file, time_zone_offset,
                   timezone_ready, merging, ipc, i_local, i_shift, rpc, r_shift, ui_queue,
                   populated, lookups, prompts, store_file, delete_pc, delete_report, loads,
                   unreset_load>>

\* on_populate_incident_viewer up to on_populate_incidents: the UI thread
\* shows the status, disables the button and starts the incident worker
OnPopulateClicked ==
    /\ "populate" \in buttons
    /\ ~IncidentActive /\ ~ReportActive
    /\ status' = "Populating incident viewer..."
    /\ buttons' = buttons \ {"populate"}
    /\ widgets' = Touch(Touch(Touch(widgets, "status", "ui"), "progress", "ui"),
                     "populate", "ui")
    /\ populated' = TRUE
    /\ ipc' = "i_check_file"
    /\ rpc' = "starting"
    /\ UNCHANGED <<notSession, store_param, has_dic, merged_file, file_ready_event,
                   time_zone_offset, timezone_ready, merging, gpc, g_params, g_local,
                   g_shift, i_local, i_shift, r_shift, ui_queue, clicks, lookups, prompts,
                   store_file, delete_pc, delete_report, loads, unreset_load>>

\* on_populate_report, called next by the same click handler: clears
\* file_ready_event and starts the report worker
OnPopulateReport ==
    /\ rpc = "starting"
    /\ file_ready_event' = FALSE
    /\ rpc' = "r_check_file"
    /\ UNCHANGED <<notSession, store_param, has_dic, merged_file, time_zone_offset,
                   timezone_ready, merging, gpc, g_params, g_local, g_shift, ipc, i_local,
                   i_shift, r_shift, ui_queue, status, widgets, buttons, clicks, populated,
                   lookups, prompts, store_file, delete_pc, delete_report, loads,
                   unreset_load>>

\* The UI thread runs the oldest scheduled callback: update_status and
\* update_progress
RunCallback ==
    /\ Len(ui_queue) > 0
    /\ status' = Head(ui_queue)
    /\ ui_queue' = Tail(ui_queue)
    /\ widgets' = Touch(Touch(widgets, "status", "ui"), "progress", "ui")
    /\ UNCHANGED <<notSession, store_param, has_dic, merged_file, file_ready_event,
                   time_zone_offset, timezone_ready, merging, gpc, g_params, g_local,
                   g_shift, ipc, i_local, i_shift, rpc, r_shift, buttons, clicks, populated,
                   lookups, prompts, store_file, delete_pc, delete_report, loads,
                   unreset_load>>


(* _generate_graphs_background *)
\* Lines 220-231: merged_file is read; without it the files are loaded, or the
\* worker ends when no files are selected
GCheckFile ==
    /\ gpc = "g_check_file"
    /\ gpc' = IF merged_file # None THEN "g_check_loaded"
              ELSE IF g_params.files THEN "g_load" ELSE "done"
    /\ ui_queue' = IF merged_file # None THEN ui_queue
                   ELSE IF g_params.files THEN Post(ui_queue, "Loading files...")
                   ELSE PostAll(ui_queue, <<"Loading files...",
                                            "No files selected on Home screen.">>)
    /\ buttons' = IF merged_file = None /\ ~g_params.files
                  THEN buttons \cup {"generate"} ELSE buttons
    /\ widgets' = IF merged_file = None /\ ~g_params.files
                  THEN Touch(widgets, "generate", "graph") ELSE widgets
    /\ UNCHANGED <<notSession, store_param, has_dic, merged_file, file_ready_event,
                   time_zone_offset, timezone_ready, merging, g_params, g_local, g_shift,
                   ipc, i_local, i_shift, rpc, r_shift, status, clicks, populated, lookups,
                   prompts, store_file, delete_pc, delete_report, loads, unreset_load>>

\* load_files is entered: merge_batch connects to the merged store, which
\* creates the file
GLoadFiles ==
    /\ gpc = "g_load"
    /\ merging' = merging \cup {"graph"}
    /\ loads' = Count(loads)
    /\ store_file' = TRUE
    /\ gpc' = "g_merging"
    /\ UNCHANGED <<notSession, store_param, has_dic, merged_file, file_ready_event,
                   time_zone_offset, timezone_ready, g_params, g_local, g_shift, ipc,
                   i_local, i_shift, rpc, r_shift, ui_queue, status, widgets, buttons,
                   clicks, populated, lookups, prompts, delete_pc, delete_report,
                   unreset_load>>

\* load_files returns the path of the merged store, which is kept
GLoaded ==
    /\ gpc = "g_merging"
    /\ merging' = merging \ {"graph"}
    /\ merged_file' = MergedPath
    /\ unreset_load' = TRUE
    /\ gpc' = "g_file_ready"
    /\ UNCHANGED <<notSession, store_param, has_dic, file_ready_event, time_zone_offset,
                   timezone_ready, g_params, g_local, g_shift, ipc, i_local, i_shift, rpc,
                   r_shift, ui_queue, status, widgets, buttons, clicks, populated, lookups,
                   prompts, store_file, delete_pc, delete_report, loads>>

\* file_ready_event.set()
GFileReady ==
    /\ gpc = "g_file_ready"
    /\ file_ready_event' = TRUE
    /\ gpc' = "g_reset"
    /\ UNCHANGED <<notSession, store_param, has_dic, merged_file, time_zone_offset,
                   timezone_ready, merging, g_params, g_local, g_shift, ipc, i_local,
                   i_shift, rpc, r_shift, ui_queue, status, widgets, buttons, clicks,
                   populated, lookups, prompts, store_file, delete_pc, delete_report, loads,
                   unreset_load>>

\* set_time_zone_offset(None): the offset is reset
GReset ==
    /\ gpc = "g_reset"
    /\ time_zone_offset' = <<>>
    /\ unreset_load' = FALSE
    /\ lookups' = 0
    /\ prompts' = 0
    /\ gpc' = "g_reset_clear"
    /\ UNCHANGED <<notSession, store_param, has_dic, merged_file, file_ready_event,
                   timezone_ready, merging, g_params, g_local, g_shift, ipc, i_local,
                   i_shift, rpc, r_shift, ui_queue, status, widgets, buttons, clicks,
                   populated, store_file, delete_pc, delete_report, loads>>

\* set_time_zone_offset(None): timezone_ready.clear()
GResetClear ==
    /\ gpc = "g_reset_clear"
    /\ timezone_ready' = FALSE
    /\ gpc' = "g_check_loaded"
    /\ UNCHANGED <<notSession, store_param, has_dic, merged_file, file_ready_event,
                   time_zone_offset, merging, g_params, g_local, g_shift, ipc, i_local,
                   i_shift, rpc, r_shift, ui_queue, status, widgets, buttons, clicks,
                   populated, lookups, prompts, store_file, delete_pc, delete_report, loads,
                   unreset_load>>

\* Lines 233-251: the status of the load, deletion enabled, and the worker
\* ends when nothing is selected for plotting
GCheckLoaded ==
    /\ gpc = "g_check_loaded"
    /\ ui_queue' =
           PostAll(ui_queue,
                   <<IF merged_file # <<>> THEN "Files loaded"
                     ELSE "Failed to load merged file",
                     "Processing data...">>
                   \o (IF g_params.points THEN <<>>
                       ELSE <<"No points or graphs selected for plotting.">>))
    /\ buttons' = (IF merged_file # <<>> THEN buttons \cup {"delete_database"} ELSE buttons)
                  \cup (IF g_params.points THEN {} ELSE {"generate"})
    /\ widgets' =
           (IF merged_file # <<>> THEN Touch(widgets, "delete_database", "graph")
            ELSE widgets)
           \cup (IF g_params.points THEN {} ELSE Touch({}, "generate", "graph"))
    /\ gpc' = IF g_params.points THEN "g_cache" ELSE "done"
    /\ UNCHANGED <<notSession, store_param, has_dic, merged_file, file_ready_event,
                   time_zone_offset, timezone_ready, merging, g_params, g_local, g_shift,
                   ipc, i_local, i_shift, rpc, r_shift, status, clicks, populated, lookups,
                   prompts, store_file, delete_pc, delete_report, loads, unreset_load>>

\* process_data, line 203: the cached offset is used when it is true
GCache ==
    /\ gpc = "g_cache"
    /\ g_shift' = IF Truthy(time_zone_offset) THEN Shifted(time_zone_offset) ELSE g_shift
    /\ gpc' = IF Truthy(time_zone_offset) THEN "g_finish" ELSE "g_lookup"
    /\ UNCHANGED <<notSession, store_param, has_dic, merged_file, file_ready_event,
                   time_zone_offset, timezone_ready, merging, g_params, g_local, ipc,
                   i_local, i_shift, rpc, r_shift, ui_queue, status, widgets, buttons,
                   clicks, populated, lookups, prompts, store_file, delete_pc, delete_report,
                   loads, unreset_load>>

\* process_data, line 208: the lookup in the store and the assignment of what
\* it returns; an exception ends the worker in its except clause
GLookup ==
    /\ gpc = "g_lookup"
    /\ lookups' = Count(lookups)
    /\ time_zone_offset' = IF LookupRaises THEN time_zone_offset ELSE LookupResult
    /\ ui_queue' = IF LookupRaises
                   THEN Post(ui_queue, "An error occured when generating graphs")
                   ELSE ui_queue
    /\ gpc' = IF LookupRaises THEN "failed in get_time_zone_offset" ELSE "g_after_lookup"
    /\ UNCHANGED <<notSession, store_param, has_dic, merged_file, file_ready_event,
                   timezone_ready, merging, g_params, g_local, g_shift, ipc, i_local,
                   i_shift, rpc, r_shift, status, widgets, buttons, clicks, populated,
                   prompts, store_file, delete_pc, delete_report, loads, unreset_load>>

\* process_data, line 209: the offset just looked up is used when it is true
GAfterLookup ==
    /\ gpc = "g_after_lookup"
    /\ g_shift' = IF Truthy(time_zone_offset) THEN Shifted(time_zone_offset) ELSE g_shift
    /\ gpc' = IF Truthy(time_zone_offset) THEN "g_finish" ELSE "g_prompt"
    /\ UNCHANGED <<notSession, store_param, has_dic, merged_file, file_ready_event,
                   time_zone_offset, timezone_ready, merging, g_params, g_local, ipc,
                   i_local, i_shift, rpc, r_shift, ui_queue, status, widgets, buttons,
                   clicks, populated, lookups, prompts, store_file, delete_pc, delete_report,
                   loads, unreset_load>>

\* process_data, line 214: the prompt is shown and answered
GPrompt ==
    /\ gpc = "g_prompt"
    /\ \E answer \in PromptAnswers : g_local' = answer
    /\ prompts' = Count(prompts)
    /\ gpc' = "g_publish"
    /\ UNCHANGED <<notSession, store_param, has_dic, merged_file, file_ready_event,
                   time_zone_offset, timezone_ready, merging, g_params, g_shift, ipc,
                   i_local, i_shift, rpc, r_shift, ui_queue, status, widgets, buttons,
                   clicks, populated, lookups, store_file, delete_pc, delete_report, loads,
                   unreset_load>>

\* process_data, lines 215-221: the answer is assigned; the data is shifted
\* unless the answer is None
GPublish ==
    /\ gpc = "g_publish"
    /\ time_zone_offset' = g_local
    /\ g_shift' = IF g_local # <<>> THEN Shifted(g_local) ELSE Passed
    /\ gpc' = "g_finish"
    /\ UNCHANGED <<notSession, store_param, has_dic, merged_file, file_ready_event,
                   timezone_ready, merging, g_params, g_local, ipc, i_local, i_shift, rpc,
                   r_shift, ui_queue, status, widgets, buttons, clicks, populated, lookups,
                   prompts, store_file, delete_pc, delete_report, loads, unreset_load>>

\* Lines 246-270: CSV, plots, cleanup, and the buttons enabled again
GFinish ==
    /\ gpc = "g_finish"
    /\ ui_queue' =
           PostAll(ui_queue,
                   <<"Data processed...">>
                   \o (IF g_params.include_csv
                       THEN <<"Generating CSV File...", "CSV Generated">> ELSE <<>>)
                   \o <<"Creating plots...", "Plots generated...",
                        "Cleaning directory...", "Task complete.">>)
    /\ buttons' = buttons \cup {"generate"}
    /\ widgets' = Touch(widgets, "generate", "graph")
    /\ gpc' = "done"
    /\ UNCHANGED <<notSession, store_param, has_dic, merged_file, file_ready_event,
                   time_zone_offset, timezone_ready, merging, g_params, g_local, g_shift,
                   ipc, i_local, i_shift, rpc, r_shift, status, clicks, populated, lookups,
                   prompts, store_file, delete_pc, delete_report, loads, unreset_load>>


(* _populate_incidents_background *)
\* Line 282: merged_file is read; without it the files are loaded
ICheckFile ==
    /\ ipc = "i_check_file"
    /\ ui_queue' = IF merged_file = None THEN Post(ui_queue, "Loading files...")
                   ELSE ui_queue
    /\ ipc' = IF merged_file = None THEN "i_load" ELSE "i_file_ready"
    /\ UNCHANGED <<notSession, store_param, has_dic, merged_file, file_ready_event,
                   time_zone_offset, timezone_ready, merging, gpc, g_params, g_local,
                   g_shift, i_local, i_shift, rpc, r_shift, status, widgets, buttons, clicks,
                   populated, lookups, prompts, store_file, delete_pc, delete_report, loads,
                   unreset_load>>

\* load_files is entered: merge_batch connects to the merged store, which
\* creates the file
ILoadFiles ==
    /\ ipc = "i_load"
    /\ merging' = merging \cup {"incident"}
    /\ loads' = Count(loads)
    /\ store_file' = TRUE
    /\ ipc' = "i_merging"
    /\ UNCHANGED <<notSession, store_param, has_dic, merged_file, file_ready_event,
                   time_zone_offset, timezone_ready, gpc, g_params, g_local, g_shift,
                   i_local, i_shift, rpc, r_shift, ui_queue, status, widgets, buttons,
                   clicks, populated, lookups, prompts, delete_pc, delete_report,
                   unreset_load>>

\* load_files returns the path of the merged store, which is kept
ILoaded ==
    /\ ipc = "i_merging"
    /\ merging' = merging \ {"incident"}
    /\ merged_file' = MergedPath
    /\ unreset_load' = TRUE
    /\ ipc' = "i_reset"
    /\ UNCHANGED <<notSession, store_param, has_dic, file_ready_event, time_zone_offset,
                   timezone_ready, gpc, g_params, g_local, g_shift, i_local, i_shift, rpc,
                   r_shift, ui_queue, status, widgets, buttons, clicks, populated, lookups,
                   prompts, store_file, delete_pc, delete_report, loads>>

\* set_time_zone_offset(None): the offset is reset
IReset ==
    /\ ipc = "i_reset"
    /\ time_zone_offset' = <<>>
    /\ unreset_load' = FALSE
    /\ lookups' = 0
    /\ prompts' = 0
    /\ ipc' = "i_reset_clear"
    /\ UNCHANGED <<notSession, store_param, has_dic, merged_file, file_ready_event,
                   timezone_ready, merging, gpc, g_params, g_local, g_shift, i_local,
                   i_shift, rpc, r_shift, ui_queue, status, widgets, buttons, clicks,
                   populated, store_file, delete_pc, delete_report, loads>>

\* set_time_zone_offset(None): timezone_ready.clear()
IResetClear ==
    /\ ipc = "i_reset_clear"
    /\ timezone_ready' = FALSE
    /\ ipc' = "i_file_ready"
    /\ UNCHANGED <<notSession, store_param, has_dic, merged_file, file_ready_event,
                   time_zone_offset, merging, gpc, g_params, g_local, g_shift, i_local,
                   i_shift, rpc, r_shift, ui_queue, status, widgets, buttons, clicks,
                   populated, lookups, prompts, store_file, delete_pc, delete_report, loads,
                   unreset_load>>

\* file_ready_event.set()
IFileReady ==
    /\ ipc = "i_file_ready"
    /\ file_ready_event' = TRUE
    /\ ipc' = "i_xml"
    /\ UNCHANGED <<notSession, store_param, has_dic, merged_file, time_zone_offset,
                   timezone_ready, merging, gpc, g_params, g_local, g_shift, i_local,
                   i_shift, rpc, r_shift, ui_queue, status, widgets, buttons, clicks,
                   populated, lookups, prompts, store_file, delete_pc, delete_report, loads,
                   unreset_load>>

\* Line 291, get_xml_file: text_dic[0] of an empty glob result raises
\* IndexError, which nothing in the worker catches
IGetXmlFile ==
    /\ ipc = "i_xml"
    /\ ui_queue' = IF has_dic THEN Post(ui_queue, "Processing incidents...")
                   ELSE ui_queue
    /\ ipc' = IF has_dic THEN "i_decode" ELSE "raised in get_xml_file"
    /\ UNCHANGED <<notSession, store_param, has_dic, merged_file, file_ready_event,
                   time_zone_offset, timezone_ready, merging, gpc, g_params, g_local,
                   g_shift, i_local, i_shift, rpc, r_shift, status, widgets, buttons, clicks,
                   populated, lookups, prompts, store_file, delete_pc, delete_report, loads,
                   unreset_load>>

\* process_incidents, lines 314-328: the dictionary and the incidents are
\* loaded and decoded; what clean_data raises ends the worker
IDecode ==
    /\ ipc = "i_decode"
    /\ \E raises \in BOOLEAN :
           ipc' = IF raises THEN "raised in clean_data" ELSE "i_cache"
    /\ UNCHANGED <<notSession, store_param, has_dic, merged_file, file_ready_event,
                   time_zone_offset, timezone_ready, merging, gpc, g_params, g_local,
                   g_shift, i_local, i_shift, rpc, r_shift, ui_queue, status, widgets,
                   buttons, clicks, populated, lookups, prompts, store_file, delete_pc,
                   delete_report, loads, unreset_load>>

\* process_incidents, line 330: the cached offset is used when it is true
ICache ==
    /\ ipc = "i_cache"
    /\ i_shift' = IF Truthy(time_zone_offset) THEN Shifted(time_zone_offset) ELSE i_shift
    /\ timezone_ready' = IF Truthy(time_zone_offset) THEN TRUE ELSE timezone_ready
    /\ ipc' = IF Truthy(time_zone_offset) THEN "i_render" ELSE "i_lookup"
    /\ UNCHANGED <<notSession, store_param, has_dic, merged_file, file_ready_event,
                   time_zone_offset, merging, gpc, g_params, g_local, g_shift, i_local, rpc,
                   r_shift, ui_queue, status, widgets, buttons, clicks, populated, lookups,
                   prompts, store_file, delete_pc, delete_report, loads, unreset_load>>

\* process_incidents, line 337: the lookup in the store and the assignment of
\* what it returns; an exception ends the worker
ILookup ==
    /\ ipc = "i_lookup"
    /\ lookups' = Count(lookups)
    /\ time_zone_offset' = IF LookupRaises THEN time_zone_offset ELSE LookupResult
    /\ ipc' = IF LookupRaises THEN "raised in get_time_zone_offset" ELSE "i_after_lookup"
    /\ UNCHANGED <<notSession, store_param, has_dic, merged_file, file_ready_event,
                   timezone_ready, merging, gpc, g_params, g_local, g_shift, i_local,
                   i_shift, rpc, r_shift, ui_queue, status, widgets, buttons, clicks,
                   populated, prompts, store_file, delete_pc, delete_report, loads,
                   unreset_load>>

\* process_incidents, line 338: the offset just looked up is used when true
IAfterLookup ==
    /\ ipc = "i_after_lookup"
    /\ i_shift' = IF Truthy(time_zone_offset) THEN Shifted(time_zone_offset) ELSE i_shift
    /\ timezone_ready' = IF Truthy(time_zone_offset) THEN TRUE ELSE timezone_ready
    /\ ipc' = IF Truthy(time_zone_offset) THEN "i_render" ELSE "i_prompt"
    /\ UNCHANGED <<notSession, store_param, has_dic, merged_file, file_ready_event,
                   time_zone_offset, merging, gpc, g_params, g_local, g_shift, i_local, rpc,
                   r_shift, ui_queue, status, widgets, buttons, clicks, populated, lookups,
                   prompts, store_file, delete_pc, delete_report, loads, unreset_load>>

\* process_incidents, line 344: the prompt is shown and answered
IPrompt ==
    /\ ipc = "i_prompt"
    /\ \E answer \in PromptAnswers : i_local' = answer
    /\ prompts' = Count(prompts)
    /\ ipc' = "i_publish"
    /\ UNCHANGED <<notSession, store_param, has_dic, merged_file, file_ready_event,
                   time_zone_offset, timezone_ready, merging, gpc, g_params, g_local,
                   g_shift, i_shift, rpc, r_shift, ui_queue, status, widgets, buttons,
                   clicks, populated, lookups, store_file, delete_pc, delete_report, loads,
                   unreset_load>>

\* process_incidents, lines 345-352: the answer is assigned, timezone_ready is
\* set, and the incidents are shifted unless the answer is None
IPublish ==
    /\ ipc = "i_publish"
    /\ time_zone_offset' = i_local
    /\ timezone_ready' = TRUE
    /\ i_shift' = IF i_local # <<>> THEN Shifted(i_local) ELSE Passed
    /\ ipc' = "i_render"
    /\ UNCHANGED <<notSession, store_param, has_dic, merged_file, file_ready_event, merging,
                   gpc, g_params, g_local, g_shift, i_local, rpc, r_shift, ui_queue, status,
                   widgets, buttons, clicks, populated, lookups, prompts, store_file,
                   delete_pc, delete_report, loads, unreset_load>>

\* Lines 294-301: the incidents are rendered by the worker itself
IRender ==
    /\ ipc = "i_render"
    /\ ui_queue' = PostAll(ui_queue, <<"Rendering incidents...",
                                       "Population complete.">>)
    /\ widgets' = Touch(widgets, "incident_viewer", "incident")
    /\ ipc' = "done"
    /\ UNCHANGED <<notSession, store_param, has_dic, merged_file, file_ready_event,
                   time_zone_offset, timezone_ready, merging, gpc, g_params, g_local,
                   g_shift, i_local, i_shift, rpc, r_shift, status, buttons, clicks,
                   populated, lookups, prompts, store_file, delete_pc, delete_report, loads,
                   unreset_load>>


(* _populate_report_background and populate_report *)
\* Line 310: merged_file is read
RCheckFile ==
    /\ rpc = "r_check_file"
    /\ rpc' = IF merged_file \in {None, <<>>} THEN "r_wait_file" ELSE "r_report"
    /\ UNCHANGED <<notSession, store_param, has_dic, merged_file, file_ready_event,
                   time_zone_offset, timezone_ready, merging, gpc, g_params, g_local,
                   g_shift, ipc, i_local, i_shift, r_shift, ui_queue, status, widgets,
                   buttons, clicks, populated, lookups, prompts, store_file, delete_pc,
                   delete_report, loads, unreset_load>>

\* file_ready_event.wait() returns
RFileReady ==
    /\ rpc = "r_wait_file"
    /\ file_ready_event
    /\ rpc' = "r_report"
    /\ UNCHANGED <<notSession, store_param, has_dic, merged_file, file_ready_event,
                   time_zone_offset, timezone_ready, merging, gpc, g_params, g_local,
                   g_shift, ipc, i_local, i_shift, r_shift, ui_queue, status, widgets,
                   buttons, clicks, populated, lookups, prompts, store_file, delete_pc,
                   delete_report, loads, unreset_load>>

\* populate_report, lines 377-381: the serial number label is configured
RReport ==
    /\ rpc = "r_report"
    /\ widgets' = Touch(widgets, "serial_num", "report")
    /\ rpc' = "r_cache"
    /\ UNCHANGED <<notSession, store_param, has_dic, merged_file, file_ready_event,
                   time_zone_offset, timezone_ready, merging, gpc, g_params, g_local,
                   g_shift, ipc, i_local, i_shift, r_shift, ui_queue, status, buttons,
                   clicks, populated, lookups, prompts, store_file, delete_pc, delete_report,
                   loads, unreset_load>>

\* populate_report, line 384: the cached offset is read
RCache ==
    /\ rpc = "r_cache"
    /\ rpc' = IF Truthy(time_zone_offset) THEN "r_apply" ELSE "r_lookup"
    /\ UNCHANGED <<notSession, store_param, has_dic, merged_file, file_ready_event,
                   time_zone_offset, timezone_ready, merging, gpc, g_params, g_local,
                   g_shift, ipc, i_local, i_shift, r_shift, ui_queue, status, widgets,
                   buttons, clicks, populated, lookups, prompts, store_file, delete_pc,
                   delete_report, loads, unreset_load>>

\* populate_report, lines 385-389: the lookup in the store; a true offset is
\* kept, otherwise the worker waits for timezone_ready
RLookup ==
    /\ rpc = "r_lookup"
    /\ time_zone_offset' = IF ~LookupRaises /\ Truthy(LookupResult)
                           THEN LookupResult ELSE time_zone_offset
    /\ rpc' = IF LookupRaises THEN "raised in get_time_zone_offset"
              ELSE IF Truthy(LookupResult) THEN "r_apply" ELSE "r_wait_tz"
    /\ UNCHANGED <<notSession, store_param, has_dic, merged_file, file_ready_event,
                   timezone_ready, merging, gpc, g_params, g_local, g_shift, ipc, i_local,
                   i_shift, r_shift, ui_queue, status, widgets, buttons, clicks, populated,
                   lookups, prompts, store_file, delete_pc, delete_report, loads,
                   unreset_load>>

\* wait_for_timezone_offset returns
RTimezoneReady ==
    /\ rpc = "r_wait_tz"
    /\ timezone_ready
    /\ rpc' = "r_apply"
    /\ UNCHANGED <<notSession, store_param, has_dic, merged_file, file_ready_event,
                   time_zone_offset, timezone_ready, merging, gpc, g_params, g_local,
                   g_shift, ipc, i_local, i_shift, r_shift, ui_queue, status, widgets,
                   buttons, clicks, populated, lookups, prompts, store_file, delete_pc,
                   delete_report, loads, unreset_load>>

\* populate_report, lines 391-409: the offset is applied when true and the
\* date and time labels are configured
RApply ==
    /\ rpc = "r_apply"
    /\ r_shift' = IF Truthy(time_zone_offset) THEN Shifted(time_zone_offset) ELSE Passed
    /\ widgets' = Touch(Touch(widgets, "date", "report"), "time", "report")
    /\ rpc' = "done"
    /\ UNCHANGED <<notSession, store_param, has_dic, merged_file, file_ready_event,
                   time_zone_offset, timezone_ready, merging, gpc, g_params, g_local,
                   g_shift, ipc, i_local, i_shift, ui_queue, status, buttons, clicks,
                   populated, lookups, prompts, store_file, delete_pc, delete_report, loads,
                   unreset_load>>


\* The steps of the graph worker
GraphSteps ==
    \/ GCheckFile
    \/ GLoadFiles
    \/ GLoaded
    \/ GFileReady
    \/ GReset
    \/ GResetClear
    \/ GCheckLoaded
    \/ GCache
    \/ GLookup
    \/ GAfterLookup
    \/ GPrompt
    \/ GPublish
    \/ GFinish

\* The steps of the incident worker
IncidentSteps ==
    \/ ICheckFile
    \/ ILoadFiles
    \/ ILoaded
    \/ IReset
    \/ IResetClear
    \/ IFileReady
    \/ IGetXmlFile
    \/ IDecode
    \/ ICache
    \/ ILookup
    \/ IAfterLookup
    \/ IPrompt
    \/ IPublish
    \/ IRender

\* The steps of the report worker
ReportSteps ==
    \/ RCheckFile
    \/ RFileReady
    \/ RReport
    \/ RCache
    \/ RLookup
    \/ RTimezoneReady
    \/ RApply

\* The steps of the UI thread and of the workers once a request is made
SessionSteps ==
    \/ OnPopulateReport
    \/ RunCallback
    \/ GraphSteps
    \/ IncidentSteps
    \/ ReportSteps

NextSession == OnGenerateClicked \/ OnPopulateClicked \/ SessionSteps

SpecSession == InitSession /\ [][NextSession]_vars

(* Deleting the data folder contents *)

\* The workers that hold a connection to the merged store: merge_batch keeps
\* its connection from the start of the merge to its return
OpenConnections ==
    {w \in {"graph", "incident"} :
        \/ (w = "graph" /\ gpc = "g_merging")
        \/ (w = "incident" /\ ipc = "i_merging")}
\* delete_database_file, confirmed: handle_database_closing shows the status
\* and asks the controller to close the connections, of which the managers
\* hold none (DatabaseManager._connection is never set); the removal is
\* scheduled 300 ms later
DeleteClicked ==
    /\ delete_pc = "idle"
    /\ store_file
    /\ status' = "Closing database connections..."
    /\ widgets' = Touch(Touch(widgets, "status", "ui"), "progress", "ui")
    /\ delete_pc' = "scheduled"
    /\ UNCHANGED <<notSession, store_param, has_dic, merged_file, file_ready_event,
                   time_zone_offset, timezone_ready, merging, gpc, g_params, g_local,
                   g_shift, ipc, i_local, i_shift, rpc, r_shift, ui_queue, buttons, clicks,
                   populated, lookups, prompts, store_file, delete_report, loads,
                   unreset_load>>

\* _attempt_file_deletion: os.remove on the merged store, whose failure is
\* passed over; with a connection open the removal fails or succeeds as the
\* platform has it.  Then handle_database_deleted and on_database_deleted run
\* and the success message is shown.
AttemptDeletion ==
    /\ delete_pc = "scheduled"
    /\ \E removed \in (IF OpenConnections = {} THEN {TRUE} ELSE BOOLEAN) :
           store_file' = (store_file /\ ~removed)
    /\ status' = "Data folder contents deleted successfully."
    /\ widgets' = widgets \cup {[widget |-> w, by |-> "ui"] :
                                   w \in {"status", "progress", "incident_viewer",
                                          "serial_num", "date", "time", "populate"}}
    /\ buttons' = buttons \cup {"populate"}
    /\ merged_file' = None
    /\ loads' = 0
    /\ delete_report' = "Success"
    /\ delete_pc' = "done"
    /\ UNCHANGED <<notSession, store_param, has_dic, file_ready_event, time_zone_offset,
                   timezone_ready, merging, gpc, g_params, g_local, g_shift, ipc, i_local,
                   i_shift, rpc, r_shift, ui_queue, clicks, populated, lookups, prompts,
                   unreset_load>>


(* Requests made one after another *)

\* The workers of two requests are running at once
Overlap == GraphActive /\ (IncidentActive \/ ReportActive)

\* A step of the session in which no request is made while the workers of
\* another are running; the deletion may be asked for at any time
GenerateAfterOthers == OnGenerateClicked /\ ~Overlap'

PopulateAfterOthers == OnPopulateClicked /\ ~Overlap'

NextOneByOne ==
    \/ GenerateAfterOthers
    \/ PopulateAfterOthers
    \/ SessionSteps
    \/ DeleteClicked
    \/ AttemptDeletion

SpecOneByOne == InitSession /\ [][NextOneByOne]_vars

(* One populate request under fair scheduling *)

NextPopulate ==
    \/ OnPopulateClicked
    \/ OnPopulateReport
    \/ RunCallback
    \/ IncidentSteps
    \/ ReportSteps

\* The click handler runs to its end, the UI thread serves its queue, and each
\* started worker thread is scheduled again and again; the user answers an
\* open dialog
SpecPopulate ==
    /\ InitSession
    /\ [][NextPopulate]_vars
    /\ WF_vars(OnPopulateReport)
    /\ WF_vars(RunCallback)
    /\ WF_vars(IncidentSteps)
    /\ WF_vars(ReportSteps)

(* End of the session model *)

-----------------------------------------------------------------------------
(* Properties of the session *)

\* C14: in process_data and process_incidents the offset is resolved from the
\* cache, then the store, then the prompt, the first success being cached, so
\* that between two resets the store lookup and the prompt each happen at most
\* once, and a store without the TimeZoneOffset parameter leads to the prompt
\* instead of an error
C14_ResolvedOncePerReset ==
    /\ lookups <= 1
    /\ prompts <= 1
    /\ store_param = "NoParam" =>
           /\ gpc # "failed in get_time_zone_offset"
           /\ ipc # "raised in get_time_zone_offset"

\* C15: an offset of 0 from the store lookup or from the prompt counts as
\* resolved: no worker goes on to a lookup or a prompt while the offset is 0,
\* and timestamps pass through unshifted only when the prompt gave no value
C15_ZeroIsResolved ==
    /\ gpc \in {"g_lookup", "g_prompt"} => time_zone_offset # <<0>>
    /\ ipc \in {"i_lookup", "i_prompt"} => time_zone_offset # <<0>>
    /\ g_shift = Passed => g_local = <<>>
    /\ i_shift = Passed => i_local = <<>>

\* C16: first publish wins: once time_zone_offset is not None, no step of the
\* graph, incident or report worker changes it, except the explicit reset
\* set_time_zone_offset(None)
C16_FirstPublishWins ==
    [][(time_zone_offset # <<>> /\ time_zone_offset' # time_zone_offset)
           => (GReset \/ IReset)]_vars

\* C17: at any time at most one merge (load_files) is running, for every
\* interleaving of a generate-graphs and a populate-incidents request issued
\* while no merged store exists
C17_OneMergeAtATime == Cardinality(merging) <= 1

\* C18: without a text dictionary in the data folder the incident worker does
\* not run process_incidents, does not raise, and ends having reported the
\* status 'Data download did not contain a text dictionary'
C18_DictionaryMissingReported ==
    ~has_dic =>
        /\ ipc \notin {"i_decode", "i_cache", "i_lookup", "i_after_lookup", "i_prompt",
                       "i_publish", "i_render"}
        /\ ipc # "raised in get_xml_file"

\* C20: every change of a widget made on behalf of a worker is executed on the
\* UI thread; no worker thread changes a widget directly
C20_WidgetsChangedByUiThreadOnly == \A w \in widgets : w.by = "ui"

(* Properties of the deletion and of the cached store *)

\* C21: deletion of the merged store file is never attempted while a
\* connection to it is open: in every interleaving of the delete request with a
\* running worker, all store connections are closed before os.remove is called
C21_NoRemovalWhileConnected ==
    [][(delete_pc = "scheduled" /\ delete_pc' = "done") => OpenConnections = {}]_vars

\* C28: a removal of the merged store that fails is retried or waited for
\* instead of being dropped: the database_deleted callback fires and the
\* success message is shown only once the merged store file has been removed
C28_SuccessOnlyAfterRemoval ==
    [][(delete_pc = "scheduled" /\ delete_pc' = "done" /\ delete_report' = "Success")
           => ~store_file']_vars

\* A worker has read data of the merged store
Processing ==
    \/ gpc \in {"g_cache", "g_lookup", "g_after_lookup", "g_prompt", "g_publish", "g_finish"}
    \/ ipc \in {"i_decode", "i_cache", "i_lookup", "i_after_lookup", "i_prompt",
                "i_publish", "i_render"}
    \/ rpc \in {"r_cache", "r_lookup", "r_wait_tz", "r_apply"}

\* C30: for requests handled one after another, load_files runs only when
\* merged_file is None, so after one load no further load runs until
\* on_database_deleted resets merged_file to None; each load is followed by a
\* reset of the cached offset to unresolved before any data is processed
C30_LoadedOnceAndResetFirst ==
    /\ loads <= 1
    /\ unreset_load => ~Processing

\* The report worker is blocked in file_ready_event.wait() or in
\* timezone_ready.wait()
ReportWaiting == rpc \in {"r_wait_file", "r_wait_tz"}

\* C27: the report worker never blocks forever: after a populate request the
\* wait on file_ready_event and the wait on timezone_ready both eventually
\* return, including when no text dictionary exists and when incident
\* processing raises before publishing the offset
C27_ReportWorkerNeverBlocksForever == ReportWaiting ~> ~ReportWaiting

====
